---- MODULE Spec2Model ----
(***************************************************************************)
(* A model of libuhdr's container parsing (tiff.rs, mpf.rs, the gain-map   *)
(* extraction of jpeg.rs) and of its pixel fetch and bilinear sampling     *)
(* (jpeg.rs).                                                              *)
(*                                                                         *)
(* Byte streams are sequences of 0..255.  A multi-byte integer read from   *)
(* a stream is kept as its tuple of bytes, most significant first (its     *)
(* "digits"), so that a value keeps its full width; Num turns digits into  *)
(* a number, saturating at Huge, which is above every length and offset    *)
(* of the bounded streams of this model.                                   *)
(***************************************************************************)
EXTENDS Integers, Sequences, FiniteSets, TLC

\* ------------------------------------------------------------------ bounds
\* The largest element count of a generated IFD entry.
MaxCount == 5
\* The largest number of images an MPF payload declares.
MaxImages == 2
\* The largest length of original_bytes.
MaxOrigLen == 4
\* The largest number of IFDs Tiff::from_reader is followed through.
MaxIfds == 3

Huge == 256 * 256

Min(a, b) == IF a < b THEN a ELSE b

\* ------------------------------------------------------------- byte helpers
Rev(s) == [i \in 1..Len(s) |-> s[Len(s) + 1 - i]]

\* u16/u32/u64::from_le_bytes and from_be_bytes: the digits of the value.
FromBytes(endianness, buffer) ==
    IF endianness = "LittleEndian" THEN Rev(buffer) ELSE buffer

\* The number a tuple of digits stands for, saturated at Huge.
Num(d) ==
    IF \E i \in 1..(Len(d) - 2) : d[i] # 0 THEN Huge
    ELSE (IF Len(d) >= 2 THEN d[Len(d) - 1] * 256 ELSE 0)
           + (IF Len(d) >= 1 THEN d[Len(d)] ELSE 0)

\* Read::read_exact on a Cursor: n bytes from position pos (0-based), or
\* UnexpectedEof and nothing when fewer than n bytes are left.
ReadExact(bs, pos, n) ==
    IF n = 0 THEN [ok |-> TRUE, val |-> <<>>, pos |-> pos]
    ELSE IF pos + n <= Len(bs)
         THEN [ok |-> TRUE, val |-> SubSeq(bs, pos + 1, pos + n), pos |-> pos + n]
         ELSE [ok |-> FALSE, val |-> <<>>, pos |-> pos]

\* read_u16 / read_u32 / read_u64: a fixed-width read decoded by endianness.
DecodeRead(r, endianness) ==
    IF r.ok THEN [ok |-> TRUE, val |-> FromBytes(endianness, r.val), pos |-> r.pos]
    ELSE r

ReadUint(bs, pos, endianness, width) ==
    DecodeRead(ReadExact(bs, pos, width), endianness)

\* String::from_utf8 on the bytes from index i on: well-formed UTF-8.
RECURSIVE Utf8Valid(_, _)
Utf8Valid(b, i) ==
    LET n == Len(b)
        Cont(k) == k <= n /\ b[k] >= 128 /\ b[k] <= 191
    IN
    IF i > n THEN TRUE
    ELSE IF b[i] < 128 THEN Utf8Valid(b, i + 1)
    ELSE IF b[i] >= 194 /\ b[i] <= 223
         THEN Cont(i + 1) /\ Utf8Valid(b, i + 2)
    ELSE IF b[i] >= 224 /\ b[i] <= 239
         THEN /\ Cont(i + 1) /\ Cont(i + 2)
              /\ (b[i] = 224 => b[i + 1] >= 160)
              /\ (b[i] = 237 => b[i + 1] <= 159)
              /\ Utf8Valid(b, i + 3)
    ELSE IF b[i] >= 240 /\ b[i] <= 244
         THEN /\ Cont(i + 1) /\ Cont(i + 2) /\ Cont(i + 3)
              /\ (b[i] = 240 => b[i + 1] >= 144)
              /\ (b[i] = 244 => b[i + 1] <= 143)
              /\ Utf8Valid(b, i + 4)
    ELSE FALSE

\* ------------------------------------------------------------------ tiff.rs
\* TiffFieldType::from_u16 (derive(FromPrimitive)): the variant of a code,
\* "None" for a code that is no variant.
TiffFieldTypeFromU16(code) ==
    CASE code = 1 -> "BYTE"
      [] code = 2 -> "ASCII"
      [] code = 3 -> "SHORT"
      [] code = 4 -> "LONG"
      [] code = 5 -> "RATIONAL"
      [] code = 6 -> "SBYTE"
      [] code = 7 -> "UNDEFINED"
      [] code = 8 -> "SSHORT"
      [] code = 9 -> "SLONG"
      [] code = 10 -> "SRATIONAL"
      [] code = 11 -> "FLOAT"
      [] code = 12 -> "DOUBLE"
      [] code = 16 -> "LONG8"
      [] code = 17 -> "SLONG8"
      [] OTHER -> "None"

\* The variants TiffFieldType::size and TiffFieldValue::from_reader have an
\* arm for; the others reach unimplemented!().
Implemented(t) == t \notin {"LONG8", "SLONG8"}

\* TiffFieldType::size, for an implemented variant.
TiffFieldTypeSize(t) ==
    CASE t \in {"BYTE", "ASCII", "SBYTE", "UNDEFINED"} -> 1
      [] t \in {"SHORT", "SSHORT"} -> 2
      [] t \in {"LONG", "SLONG", "FLOAT"} -> 4
      [] t \in {"RATIONAL", "SRATIONAL", "DOUBLE"} -> 8
      [] OTHER -> 0

\* One element of a field value decoded from its bytes: a byte as it is, an
\* SBYTE as i8, a rational as its two u32, the rest as their digits (the
\* value's bits).
DecodeElement(t, endianness, chunk) ==
    CASE t \in {"BYTE", "ASCII", "UNDEFINED"} -> chunk[1]
      [] t = "SBYTE" -> IF chunk[1] >= 128 THEN chunk[1] - 256 ELSE chunk[1]
      [] t \in {"RATIONAL", "SRATIONAL"} ->
            <<FromBytes(endianness, SubSeq(chunk, 1, 4)),
              FromBytes(endianness, SubSeq(chunk, 5, 8))>>
      [] OTHER -> FromBytes(endianness, chunk)

\* Errors and panics as the parsers return them.
Err(e) == [kind |-> "Err", err |-> e]
Panic(m) == [kind |-> "Panic", err |-> m]

\* TiffFieldValue::from_reader for an implemented type, from the bytes its
\* reads return (r: the outcome of reading count elements one after the
\* other, which ends with UnexpectedEof when the stream is too short).
FieldValueOf(r, endianness, t, count, size) ==
    IF ~r.ok THEN Err("UnexpectedEof")
    ELSE IF t = "ASCII" /\ ~Utf8Valid(r.val, 1) THEN Err("InvalidData")
    ELSE [kind |-> "Ok",
          value |-> [type |-> t,
                     vals |-> [i \in 1..count |->
                                 DecodeElement(t, endianness,
                                     SubSeq(r.val, (i - 1) * size + 1, i * size))]],
          pos |-> r.pos]

TiffFieldValueFromReader(bs, pos, endianness, t, count) ==
    FieldValueOf(ReadExact(bs, pos, TiffFieldTypeSize(t) * count),
                 endianness, t, count, TiffFieldTypeSize(t))

\* TiffHeader::new, tiff.rs:176-182: the first IFD's offset and the header.
HeaderAfterVersion(off, endianness, ver) ==
    IF ~off.ok THEN Err("UnexpectedEof")
    ELSE [kind |-> "Ok",
          header |-> [endianness |-> endianness,
                      version |-> Num(ver.val),
                      first_ifd_offset |-> off.val]]

\* TiffHeader::new, tiff.rs:168-174: the version.
HeaderAfterByteOrder(bs, endianness, ver) ==
    IF ~ver.ok THEN Err("UnexpectedEof")
    ELSE IF Num(ver.val) < 42 THEN Err("InvalidData")
    ELSE HeaderAfterVersion(ReadUint(bs, ver.pos, endianness, 4), endianness, ver)

\* TiffHeader::new, tiff.rs:153-166: the byte order.
HeaderOfByteOrder(bs, bo) ==
    IF ~bo.ok THEN Err("UnexpectedEof")
    ELSE IF bo.val # <<73, 73>> /\ bo.val # <<77, 77>> THEN Err("InvalidData")
    ELSE IF bo.val = <<73, 73>>
         THEN HeaderAfterByteOrder(bs, "LittleEndian",
                                   ReadUint(bs, bo.pos, "LittleEndian", 2))
         ELSE HeaderAfterByteOrder(bs, "BigEndian",
                                   ReadUint(bs, bo.pos, "BigEndian", 2))

\* TiffHeader::new
TiffHeaderNew(bs) == HeaderOfByteOrder(bs, ReadUint(bs, 0, "LittleEndian", 2))

\* The entry pushed at tiff.rs:233-238 and the reader's position after it.
EntryOf(v, tag, field_type, cnt, pos) ==
    IF v.kind # "Ok" THEN v
    ELSE [kind |-> "Ok",
          entry |-> [tag |-> tag.val, field_type |-> field_type,
                     count |-> cnt.val, field_value |-> v.value],
          pos |-> pos]

\* tiff.rs:212-214: a value that fits the slot is read where the reader
\* stands, and the reader is left where that read ends.
InlineEntry(v, tag, field_type, cnt) ==
    EntryOf(v, tag, field_type, cnt, IF v.kind = "Ok" THEN v.pos ELSE 0)

\* tiff.rs:219-230: a value that does not fit is read at the offset the
\* slot holds, and the reader is put back after the slot.
OutOfLineEntry(bs, slot, endianness, tag, field_type, cnt) ==
    IF ~slot.ok THEN Err("UnexpectedEof")
    ELSE EntryOf(TiffFieldValueFromReader(bs, Num(slot.val), endianness,
                                          field_type, Num(cnt.val)),
                 tag, field_type, cnt, slot.pos)

\* tiff.rs:207-212: the field type and the size of the value.
EntryAfterCount(bs, endianness, value_offset_size, tag, field_type, cnt) ==
    IF ~cnt.ok THEN Err("UnexpectedEof")
    ELSE IF field_type = "None" THEN Err("InvalidData")
    ELSE IF ~Implemented(field_type) THEN Panic("unimplemented")
    ELSE IF TiffFieldTypeSize(field_type) * Num(cnt.val) <= value_offset_size
         THEN InlineEntry(TiffFieldValueFromReader(bs, cnt.pos, endianness,
                                                   field_type, Num(cnt.val)),
                          tag, field_type, cnt)
         ELSE OutOfLineEntry(bs, ReadUint(bs, cnt.pos, endianness, value_offset_size),
                             endianness, tag, field_type, cnt)

\* tiff.rs:204-205: the type code and the count.
EntryAfterTag(bs, endianness, value_offset_size, tag, ft) ==
    IF ~ft.ok THEN Err("UnexpectedEof")
    ELSE EntryAfterCount(bs, endianness, value_offset_size, tag,
                         TiffFieldTypeFromU16(Num(ft.val)),
                         ReadUint(bs, ft.pos, endianness, 4))

EntryOfTag(bs, endianness, value_offset_size, tag) ==
    IF ~tag.ok THEN Err("UnexpectedEof")
    ELSE EntryAfterTag(bs, endianness, value_offset_size, tag,
                       ReadUint(bs, tag.pos, endianness, 2))

\* One pass of the loop body of TiffIfd::new (tiff.rs:202-239): the entry at
\* pos.  kind "Ok" carries the entry and the position after it.
TiffIfdEntryNew(bs, pos, endianness, value_offset_size) ==
    EntryOfTag(bs, endianness, value_offset_size, ReadUint(bs, pos, endianness, 2))

\* The for loop of TiffIfd::new: the remaining entries from pos on.
RECURSIVE TiffIfdEntries(_, _, _, _, _, _)
RECURSIVE EntriesAfter(_, _, _, _, _, _)
EntriesAfter(e, bs, endianness, value_offset_size, remaining, entries) ==
    IF e.kind # "Ok" THEN e
    ELSE TiffIfdEntries(bs, e.pos, endianness, value_offset_size,
                        remaining - 1, Append(entries, e.entry))

TiffIfdEntries(bs, pos, endianness, value_offset_size, remaining, entries) ==
    IF remaining = 0 THEN [kind |-> "Ok", entries |-> entries, pos |-> pos]
    ELSE EntriesAfter(TiffIfdEntryNew(bs, pos, endianness, value_offset_size),
                      bs, endianness, value_offset_size, remaining, entries)

\* tiff.rs:241-252: the next-IFD offset, None when it is 0.
IfdOf(es, nx) ==
    IF ~nx.ok THEN Err("UnexpectedEof")
    ELSE [kind |-> "Ok",
          ifd |-> [entries |-> es.entries,
                   next_ifd_offset |-> IF Num(nx.val) = 0 THEN <<>> ELSE <<nx.val>>]]

IfdAfterEntries(bs, endianness, es) ==
    IF es.kind # "Ok" THEN es
    ELSE IfdOf(es, ReadUint(bs, es.pos, endianness, 4))

\* tiff.rs:195-200: the entry count.
IfdAfterCount(bs, endianness, value_offset_size, ec) ==
    IF ~ec.ok THEN Err("UnexpectedEof")
    ELSE IF Num(ec.val) < 1 THEN Err("InvalidData")
    ELSE IfdAfterEntries(bs, endianness,
             TiffIfdEntries(bs, ec.pos, endianness, value_offset_size,
                            Num(ec.val), <<>>))

\* TiffIfd::new with the reader positioned at pos.
TiffIfdNew(bs, pos, endianness, version) ==
    IF version \notin {42, 43} THEN Err("InvalidData")
    ELSE IfdAfterCount(bs, endianness, IF version = 42 THEN 4 ELSE 8,
                       ReadUint(bs, pos, endianness, 2))

\* TiffIfd::entry_with_tag: the first entry with the tag, <<>> when none.
FirstOf(entries, hits) ==
    IF hits = {} THEN <<>>
    ELSE <<entries[CHOOSE i \in hits : \A j \in hits : i <= j]>>

EntryWithTag(ifd, tag) ==
    FirstOf(ifd.entries, {i \in 1..Len(ifd.entries) : ifd.entries[i].tag = tag})

\* ------------------------------------------------------------------- mpf.rs
\* A record decoder that takes the size and the data offset from each
\* other's bytes.
MpfMpEntrySwapped(endianness, mp_entry_bytes) ==
    [individual_image_attribute |-> SubSeq(mp_entry_bytes, 1, 4),
     individual_image_size |-> FromBytes(endianness, SubSeq(mp_entry_bytes, 9, 12)),
     individual_image_data_offset |-> FromBytes(endianness, SubSeq(mp_entry_bytes, 5, 8)),
     dependent_image_1_entry_number |-> FromBytes(endianness, SubSeq(mp_entry_bytes, 13, 14)),
     dependent_image_2_entry_number |-> FromBytes(endianness, SubSeq(mp_entry_bytes, 15, 16))]

\* One 16-byte record of the MP Entry value (mpf.rs:57-72).
MpfMpEntryNew(endianness, mp_entry_bytes) ==
    [individual_image_attribute |-> SubSeq(mp_entry_bytes, 1, 4),
     individual_image_size |-> FromBytes(endianness, SubSeq(mp_entry_bytes, 5, 8)),
     individual_image_data_offset |-> FromBytes(endianness, SubSeq(mp_entry_bytes, 9, 12)),
     dependent_image_1_entry_number |-> FromBytes(endianness, SubSeq(mp_entry_bytes, 13, 14)),
     dependent_image_2_entry_number |-> FromBytes(endianness, SubSeq(mp_entry_bytes, 15, 16))]

\* mpf.rs:55-78: the records of the MP Entry value.
MpEntriesOf(endianness, number_of_images, mp_entry_bytes) ==
    IF Len(mp_entry_bytes) # 16 * number_of_images
    THEN Panic("assert: 0xB002 length")
    ELSE [kind |-> "Ok",
          mp_entries |-> [i \in 1..number_of_images |->
                            MpfMpEntryNew(endianness,
                                SubSeq(mp_entry_bytes, (i - 1) * 16 + 1, i * 16))]]

\* mpf.rs:32-54: the three entries of the MP Index IFD.
MpfInfoOfEntries(endianness, version_entry, number_of_images_entry, mp_entry_entry) ==
    IF version_entry = <<>> THEN Panic("unwrap: no 0xB000")
    ELSE IF version_entry[1].field_value.type # "UNDEFINED"
         THEN Panic("unwrap: 0xB000 not UNDEFINED")
    ELSE IF version_entry[1].field_value.vals # <<48, 49, 48, 48>>
         THEN Panic("assert_eq: version bytes")
    ELSE IF number_of_images_entry = <<>> THEN Panic("unwrap: no 0xB001")
    ELSE IF number_of_images_entry[1].field_value.type # "LONG"
         THEN Err("InvalidData")
    ELSE IF Len(number_of_images_entry[1].field_value.vals) = 0
         THEN Err("InvalidData")
    ELSE IF mp_entry_entry = <<>> THEN Panic("unwrap: no 0xB002")
    ELSE IF mp_entry_entry[1].field_value.type # "UNDEFINED"
         THEN Panic("unwrap: 0xB002 not UNDEFINED")
    ELSE MpEntriesOf(endianness,
                     Num(number_of_images_entry[1].field_value.vals[1]),
                     mp_entry_entry[1].field_value.vals)

\* MpfInfo::new_from_bytes after Tiff::from_reader has returned Ok
\* (mpf.rs:30-78), on the header and the IFDs it returned.
MpfInfoNew(hdr, tiff_ifds) ==
    MpfInfoOfEntries(hdr.endianness,
                     EntryWithTag(tiff_ifds[1], <<176, 0>>),
                     EntryWithTag(tiff_ifds[1], <<176, 1>>),
                     EntryWithTag(tiff_ifds[1], <<176, 2>>))

\* ------------------------------------------------------------------ jpeg.rs
\* A first index taken from the second entry's data offset instead.
GainMapOffsetFromDataOffset(entries) == Num(entries[2].individual_image_data_offset)

\* The first index of the gain-map range (jpeg.rs:118-119).
GainMapOffset(entries) == Num(entries[1].individual_image_size)

\* An entry-count check that lets a single entry through.
TooFewEntriesBelowOne(entries) == Len(entries) < 1

\* The entry-count check of jpeg.rs:113-116.
TooFewEntries(entries) == Len(entries) < 2

\* &original_bytes[offset..original_bytes.len() - 1] (jpeg.rs:121): the
\* slice, or a panic when len - 1 underflows or offset is past the end.
GainMapSlice(bytes, offset) ==
    IF Len(bytes) = 0 THEN [kind |-> "Panic", err |-> "len - 1 underflows"]
    ELSE IF offset > Len(bytes) - 1 THEN [kind |-> "Panic", err |-> "slice index"]
    ELSE [kind |-> "Ok", bytes |-> SubSeq(bytes, offset + 1, Len(bytes) - 1)]


\* ------------------------------------------------------- jpeg.rs: pixels
\* f32 values are kept as exact rationals.  A sample_bilinear coordinate is
\* a number of 1/Den texels (x = u * width = xn / Den); a normalized 8-bit
\* sample is its byte (over 255); a linear value is a number of 1/Scale,
\* and sample_bilinear's result a number of 1/(Scale * Den * Den).
HalfDen == 2
Den == 2 * HalfDen
Scale == 15 * 2000

\* powf(2.2), and the tone curves of the ICC profiles of this model, at the
\* bytes 0, 17, .., 255 (v = k/15), in units of 1/Scale.
Pow22Table ==
    <<0, 78, 356, 870, 1638, 2676, 3996, 5610, 7525, 9751, 12295, 15163,
      18362, 21898, 25775, 30000>>
SrgbTable ==
    <<0, 168, 480, 993, 1734, 2725, 3986, 5534, 7386, 9556, 12059, 14908,
      18115, 21692, 25650, 30000>>
Gamma18Table ==
    <<0, 229, 798, 1656, 2779, 4152, 5765, 7609, 9677, 11962, 14460, 17166,
      20076, 23188, 26496, 30000>>

\* rgb[c].powf(2.2), jpeg.rs:256-258
Powf22(b) == Pow22Table[(b \div 17) + 1]

\* ToneCurve::eval, colorspace.rs:320-326
CurveEval(curve, b) ==
    IF curve = "srgb" THEN SrgbTable[(b \div 17) + 1] ELSE Gamma18Table[(b \div 17) + 1]

\* r as f32 / 255.0
Unorm(b) == (b * Scale) \div 255

\* TransferCharacteristics::evaluate: a channel without a curve is unchanged.
Evaluate(tc, rgb) ==
    [c \in 1..3 |-> IF tc[c] # "None" THEN CurveEval(tc[c], rgb[c]) ELSE Unorm(rgb[c])]

\* A linearization that takes gamma 2.2 whatever the image carries.
ToLinearGammaOnly(img, rgb) == [c \in 1..3 |-> Powf22(rgb[c])]

\* UhdrJpeg::to_linear on the bytes of a pixel.
ToLinear(img, rgb) ==
    IF img.icc_color_space # <<>> THEN Evaluate(img.icc_color_space[1], rgb)
    ELSE [c \in 1..3 |-> Powf22(rgb[c])]

\* get_pixel_as_rgb888, jpeg.rs:231-235: None is -1.
PixelIndex(img, x, y) ==
    CASE img.jpeg_color_space = "RGB" -> (y * img.width + x) * 3
      [] img.jpeg_color_space = "Luma" -> (y * img.width + x) * 1
      [] OTHER -> -1

\* get_pixel_as_rgb888, jpeg.rs:237-246, for a pixel index that is Some.
PixelAt(img, pixel_index) ==
    IF pixel_index < Len(img.pixels)
    THEN IF img.jpeg_color_space = "RGB"
         THEN <<<<img.pixels[pixel_index + 1], img.pixels[pixel_index + 2],
                  img.pixels[pixel_index + 3]>>>>
         ELSE <<<<img.pixels[pixel_index + 1], img.pixels[pixel_index + 1],
                  img.pixels[pixel_index + 1]>>>>
    ELSE <<>>

\* UhdrJpeg::get_pixel_as_rgb888: <<>> is None.
GetPixelAsRgb888(img, x, y) ==
    IF PixelIndex(img, x, y) < 0 THEN <<>> ELSE PixelAt(img, PixelIndex(img, x, y))

LinearOf(img, p) == IF p = <<>> THEN <<>> ELSE <<ToLinear(img, p[1])>>

\* UhdrJpeg::get_pixel_as_rgb888_unorm_linear
GetPixelAsRgb888UnormLinear(img, x, y) == LinearOf(img, GetPixelAsRgb888(img, x, y))

\* UhdrJpeg::fetch_pixel: the three bytes it indexes (each over 255), or
\* the panic of an index out of bounds.
FetchPixelAt(img, pixel_index) ==
    IF pixel_index + 2 < Len(img.pixels)
    THEN [kind |-> "Ok",
          rgb |-> <<img.pixels[pixel_index + 1], img.pixels[pixel_index + 2],
                    img.pixels[pixel_index + 3]>>]
    ELSE [kind |-> "Panic", rgb |-> <<>>]

FetchPixel(img, x, y) == FetchPixelAt(img, (y * img.width + x) * 3)

\* fetch_pixel_linear, jpeg.rs:153-154: to_linear on what fetch_pixel returned.
LinearFetchOf(img, r) ==
    IF r.kind = "Ok"
    THEN [kind |-> "Ok", rgb |-> r.rgb, linear |-> ToLinear(img, r.rgb)]
    ELSE [kind |-> r.kind, rgb |-> <<>>, linear |-> <<>>]

\* UhdrJpeg::fetch_pixel_linear
FetchPixelLinear(img, x, y) == LinearFetchOf(img, FetchPixel(img, x, y))

\* x.fract() < 0.5: fract keeps the sign of x.
FractBelowHalf(xn) == IF xn < 0 THEN TRUE ELSE 2 * (xn % Den) < Den

\* base_x as f32, jpeg.rs:173-178, in units of 1/Den
BaseX(xn) ==
    IF FractBelowHalf(xn) THEN (xn \div Den) * Den - Den ELSE (xn \div Den) * Den

\* base_y without the step back by one texel.
BaseYAlwaysFloor(yn) == (yn \div Den) * Den

\* base_y as f32, jpeg.rs:179-184, in units of 1/Den
BaseY(yn) ==
    IF FractBelowHalf(yn) THEN yn - Den ELSE (yn \div Den) * Den

\* (base as usize).clamp(0, dim - 1), jpeg.rs:186-187: the cast truncates
\* toward zero and saturates at 0.
ClampBase(bn, dim) == Min(IF bn <= 0 THEN 0 ELSE bn \div Den, dim - 1)

\* (x - base_x as f32).clamp(0.0, 1.0), in units of 1/Den
Weight(xn, base) ==
    IF xn - base * Den < 0 THEN 0
    ELSE IF xn - base * Den > Den THEN Den ELSE xn - base * Den

\* p.unwrap_or([0.0, 0.0, 0.0])
UnwrapOrZero(p) == IF p = <<>> THEN <<0, 0, 0>> ELSE p[1]

\* lerp(a, b, t) with t = tn / Den: the result has Den times the
\* denominator of a and b.
Lerp(a, b, tn) == a * Den + (b - a) * tn

Bilinear(p00, p10, p01, p11, sn, tn) ==
    Lerp(Lerp(p00, p10, sn), Lerp(p01, p11, sn), tn)

\* sample_bilinear, jpeg.rs:194-217, from the four neighbours.
SampleOf(xn, yn, base_x, base_y, p00, p01, p10, p11) ==
    [op |-> "sample_bilinear", a |-> xn, b |-> yn,
     base |-> <<base_x, base_y>>,
     p |-> <<p00, p01, p10, p11>>,
     ret |-> <<[c \in 1..3 |->
                  Bilinear(p00[c], p10[c], p01[c], p11[c],
                           Weight(xn, base_x), Weight(yn, base_y))]>>,
     panicked |-> FALSE]

\* sample_bilinear, jpeg.rs:189-192, from the clamped base.
SampleAt(img, xn, yn, base_x, base_y) ==
    SampleOf(xn, yn, base_x, base_y,
             UnwrapOrZero(GetPixelAsRgb888UnormLinear(img, base_x, base_y)),
             UnwrapOrZero(GetPixelAsRgb888UnormLinear(img, base_x, base_y + 1)),
             UnwrapOrZero(GetPixelAsRgb888UnormLinear(img, base_x + 1, base_y)),
             UnwrapOrZero(GetPixelAsRgb888UnormLinear(img, base_x + 1, base_y + 1)))

\* UhdrJpeg::sample_bilinear(u, v) with u * width = xn / Den and
\* v * height = yn / Den.
SampleBilinear(img, xn, yn) ==
    SampleAt(img, xn, yn, ClampBase(BaseX(xn), img.width),
             ClampBase(BaseY(yn), img.height))

\* ---------------------------------------------------------------------- f32
\* An f32 is a fraction n/d in lowest terms with d > 0, or one of the
\* infinities, or NaN.  The values met here are exact in f32.
RECURSIVE Gcd(_, _)
Gcd(a, b) == IF b = 0 THEN a ELSE Gcd(b, a % b)

Abs(n) == IF n < 0 THEN 0 - n ELSE n

Reduced(n, d, g) == [k |-> "fin", n |-> n \div g, d |-> d \div g]

Fin(n, d) ==
    IF d < 0 THEN Reduced(0 - n, 0 - d, Gcd(Abs(n), Abs(d)))
    ELSE Reduced(n, d, Gcd(Abs(n), Abs(d)))

Inf == [k |-> "inf", n |-> 0, d |-> 1]

NegInf == [k |-> "-inf", n |-> 0, d |-> 1]

NaN == [k |-> "nan", n |-> 0, d |-> 1]

Zero == Fin(0, 1)

One == Fin(1, 1)

\* -1, 0 or 1; NaN has no sign and is kept apart by the callers.
Sign(x) ==
    CASE x.k = "inf" -> 1
      [] x.k = "-inf" -> 0 - 1
      [] x.k = "fin" -> IF x.n > 0 THEN 1 ELSE IF x.n < 0 THEN 0 - 1 ELSE 0
      [] x.k = "nan" -> 0

Signed(sign) == IF sign > 0 THEN Inf ELSE IF sign < 0 THEN NegInf ELSE NaN

FNeg(x) ==
    CASE x.k = "inf" -> NegInf
      [] x.k = "-inf" -> Inf
      [] x.k = "nan" -> NaN
      [] x.k = "fin" -> Fin(0 - x.n, x.d)

\* x + y over the least common denominator; g divides both denominators.
FinSum(x, y, g) == Fin(x.n * (y.d \div g) + y.n * (x.d \div g), (x.d \div g) * y.d)

\* x * y with the common factors g1 of x.n, y.d and g2 of y.n, x.d taken out.
FinProduct(x, y, g1, g2) ==
    Fin((x.n \div g1) * (y.n \div g2), (x.d \div g2) * (y.d \div g1))

FAdd(x, y) ==
    IF x.k = "nan" \/ y.k = "nan" THEN NaN
    ELSE IF x.k = "fin" /\ y.k = "fin" THEN FinSum(x, y, Gcd(x.d, y.d))
    ELSE IF x.k = "fin" THEN y
    ELSE IF y.k = "fin" THEN x
    ELSE IF x.k = y.k THEN x
    ELSE NaN

FSub(x, y) == FAdd(x, FNeg(y))

FMul(x, y) ==
    IF x.k = "nan" \/ y.k = "nan" THEN NaN
    ELSE IF x.k = "fin" /\ y.k = "fin"
         THEN FinProduct(x, y, Gcd(Abs(x.n), y.d), Gcd(Abs(y.n), x.d))
    ELSE Signed(Sign(x) * Sign(y))

\* x / y; a zero divisor is +0, the difference of two equal values.
FDiv(x, y) ==
    IF x.k = "nan" \/ y.k = "nan" THEN NaN
    ELSE IF x.k = "fin" /\ y.k = "fin"
         THEN IF y.n = 0 THEN Signed(Sign(x)) ELSE Fin(x.n * y.d, x.d * y.n)
    ELSE IF x.k = "fin" THEN Zero
    ELSE IF y.k = "fin" THEN Signed(Sign(x) * (IF y.n < 0 THEN 0 - 1 ELSE 1))
    ELSE NaN

FLess(x, y) ==
    /\ x.k # "nan" /\ y.k # "nan"
    /\ CASE x.k = "inf" -> FALSE
         [] x.k = "-inf" -> y.k # "-inf"
         [] x.k = "fin" -> \/ y.k = "inf"
                           \/ y.k = "fin" /\ x.n * y.d < y.n * x.d

\* f32::clamp(0.0, 1.0): NaN stays NaN.
Clamp01(x) ==
    IF x.k = "nan" THEN NaN
    ELSE IF FLess(x, Zero) THEN Zero
    ELSE IF FLess(One, x) THEN One
    ELSE x

\* --------------------------------------------------------------- gainmap.rs
\* An f32 of the metadata is a number of 1/Unit (0.015625 = 1/64 is 1).
\* The text of an attribute or element is a string; a Description element
\* is its attributes [name, value] and its child elements [name, text, seq],
\* where text is <<>> or <<the first text node>> and seq is <<>> or <<the
\* children of the Seq child>>, each [name, text].
Unit == 8 * 8

\* str::parse::<f32>: the number of a decimal text, <<>> for a text that is
\* no number; surrounding white space is not accepted.
ParseF32(text) ==
    CASE text = "0" -> <<0>>
      [] text = "0.5" -> <<Unit \div 2>>
      [] text = "1" -> <<Unit>>
      [] text = "2.0" -> <<2 * Unit>>
      [] text = "3" -> <<3 * Unit>>
      [] text = "4" -> <<4 * Unit>>
      [] text = "-1" -> <<0 - Unit>>
      [] text = "0.015625" -> <<1>>
      [] OTHER -> <<>>

\* str::parse::<bool>: "true" and "false" only.
ParseBool(text) ==
    CASE text = "true" -> <<TRUE>>
      [] text = "false" -> <<FALSE>>
      [] OTHER -> <<>>

\* description_node.attributes().find(|attr| attr.name() == name)
FindAttr(node, name) ==
    FirstOf(node.attrs, {i \in 1..Len(node.attrs) : node.attrs[i].name = name})

\* description_node.children().find(|node| node.tag_name().name() == name)
FindChild(node, name) ==
    FirstOf(node.children, {i \in 1..Len(node.children) : node.children[i].name = name})

\* gainmap.rs:67-73, from the attribute and the child found.
SingleBoolOf(attr, child) ==
    IF attr # <<>> THEN ParseBool(attr[1].value)
    ELSE IF child = <<>> THEN <<>>
    ELSE IF child[1].text = <<>> THEN <<>>
    ELSE ParseBool(child[1].text[1])

ReadSingleBoolValue(node, name) ==
    SingleBoolOf(FindAttr(node, name), FindChild(node, name))

\* gainmap.rs:79-85, from the attribute and the child found.
SingleF32Of(attr, child) ==
    IF attr # <<>> THEN ParseF32(attr[1].value)
    ELSE IF child = <<>> THEN <<>>
    ELSE IF child[1].text = <<>> THEN <<>>
    ELSE ParseF32(child[1].text[1])

\* A reader that looks at the attribute only.
ReadSingleF32ValueAttributeOnly(node, name) ==
    SingleF32Of(FindAttr(node, name), <<>>)

ReadSingleF32Value(node, name) ==
    SingleF32Of(FindAttr(node, name), FindChild(node, name))

\* gainmap.rs:112-116: an li whose text is a number.
LiParses(li) ==
    li.name = "li" /\ li.text # <<>> /\ ParseF32(li.text[1]) # <<>>

\* gainmap.rs:104-124: the values of the li children that parse, in
\* document order; Some of the first three when there are three.
SeqValuesOf(parsed) ==
    IF Len(parsed) >= 3
    THEN <<[i \in 1..3 |-> ParseF32(parsed[i].text[1])[1]]>>
    ELSE <<>>

ReadSeqRgbValue(value_element_node) ==
    IF value_element_node.seq = <<>> THEN <<>>
    ELSE SeqValuesOf(SelectSeq(value_element_node.seq[1], LiParses))

\* gainmap.rs:92-93
Replicate(value) == IF value = <<>> THEN <<>> ELSE <<<<value[1], value[1], value[1]>>>>

\* gainmap.rs:91-98, from the attribute and the child found.
RgbF32Of(attr, child) ==
    IF attr # <<>> THEN Replicate(ParseF32(attr[1].value))
    ELSE IF child = <<>> THEN <<>>
    ELSE ReadSeqRgbValue(child[1])

ReadRgbF32Value(node, name) ==
    RgbF32Of(FindAttr(node, name), FindChild(node, name))

\* Option::unwrap_or
UnwrapOr(opt, default) == IF opt = <<>> THEN default ELSE opt[1]

\* gainmap.rs:31-49 on the Description element.
MetadataOf(node) ==
    IF ReadSingleF32Value(node, "HDRCapacityMax") = <<>> THEN [kind |-> "None"]
    ELSE [kind |-> "Some",
          metadata |->
            [base_rendition_is_hdr |->
                 UnwrapOr(ReadSingleBoolValue(node, "BaseRenditionIsHDR"), FALSE),
             gain_map_min |-> UnwrapOr(ReadRgbF32Value(node, "GainMapMin"), <<0, 0, 0>>),
             gain_map_max |-> UnwrapOr(ReadRgbF32Value(node, "GainMapMax"), <<0, 0, 0>>),
             gamma |-> UnwrapOr(ReadRgbF32Value(node, "Gamma"), <<Unit, Unit, Unit>>),
             offset_sdr |-> UnwrapOr(ReadRgbF32Value(node, "OffsetSDR"), <<1, 1, 1>>),
             offset_hdr |-> UnwrapOr(ReadRgbF32Value(node, "OffsetHDR"), <<1, 1, 1>>),
             hdr_capacity_min |->
                 UnwrapOr(ReadSingleF32Value(node, "HDRCapacityMin"), 0),
             hdr_capacity_max |-> ReadSingleF32Value(node, "HDRCapacityMax")[1]]]

\* A field of the record, kept in 1/Unit, as an f32.
F32Of(value) == Fin(value, Unit)

\* compute_weight_factor: the clamped fraction.
ClampedFraction(metadata, log2_max_display_boost) ==
    Clamp01(FDiv(FSub(log2_max_display_boost, F32Of(metadata.hdr_capacity_min)),
                 FSub(F32Of(metadata.hdr_capacity_max),
                      F32Of(metadata.hdr_capacity_min))))

\* A weight factor that is never inverted.
ComputeWeightFactorNotInverted(metadata, log2_max_display_boost) ==
    ClampedFraction(metadata, log2_max_display_boost)

\* GainMapMetadata::compute_weight_factor
ComputeWeightFactor(metadata, log2_max_display_boost) ==
    IF metadata.base_rendition_is_hdr
    THEN FSub(One, ClampedFraction(metadata, log2_max_display_boost))
    ELSE ClampedFraction(metadata, log2_max_display_boost)

\* GainMapMetadata::new_from_xmp_bytes: the unwraps of gainmap.rs:28-29
\* abort on bytes that are no XML and on a document without a Description.
NewFromXmpBytes(xmp_bytes) ==
    IF xmp_bytes.kind = "not_xml" THEN [kind |-> "Panic"]
    ELSE IF xmp_bytes.description = <<>> THEN [kind |-> "Panic"]
    ELSE MetadataOf(xmp_bytes.description[1])

\* ------------------------------------------------------------------ uhdr.rs
RECURSIVE IntPow(_, _)
IntPow(b, e) == IF e = 0 THEN 1 ELSE b * IntPow(b, e - 1)

\* The q-th root of n, for the n of this model that have one.
RootOf(n, q) == CHOOSE r \in 0..n : IntPow(r, q) = n

\* x^(p/q) for a finite x > 0 and p > 0.
PowPositive(x, p, q) == Fin(IntPow(RootOf(x.n, q), p), IntPow(RootOf(x.d, q), p))

\* f32::powf(x, y) for a finite x >= 0.
Powf(x, y) ==
    IF x = One THEN One
    ELSE IF y.k = "nan" THEN NaN
    ELSE IF Sign(y) = 0 THEN One
    ELSE IF x.n = 0 THEN (IF Sign(y) > 0 THEN Zero ELSE Inf)
    ELSE IF y.k = "inf" THEN (IF FLess(x, One) THEN Zero ELSE Inf)
    ELSE IF y.k = "-inf" THEN (IF FLess(x, One) THEN Inf ELSE Zero)
    ELSE IF y.n > 0 THEN PowPositive(x, y.n, y.d)
    ELSE FDiv(One, PowPositive(x, 0 - y.n, y.d))

\* A compositor that takes the scaled log boost for the boost.
Exp2Missing(x) == x

\* f32::exp2 at the integers, the infinities and NaN.
Exp2(x) ==
    CASE x.k = "nan" -> NaN
      [] x.k = "inf" -> Inf
      [] x.k = "-inf" -> Zero
      [] x.k = "fin" /\ x.d = 1 /\ x.n >= 0 -> Fin(IntPow(2, x.n), 1)
      [] x.k = "fin" /\ x.d = 1 /\ x.n < 0 -> Fin(1, IntPow(2, 0 - x.n))

\* FloatPixel::rcp on the triple of a metadata field
Rcp(triple) == [c \in 1..3 |-> FDiv(One, F32Of(triple[c]))]

\* [f32; 3] into FloatPixel
FloatPixelOf(triple) == [c \in 1..3 |-> F32Of(triple[c])]

\* UhdrBoostComputer::new
UhdrBoostComputerNew(gain_map_metadata, log2_max_display_boost) ==
    [inv_gamma |-> Rcp(gain_map_metadata.gamma),
     gain_map_min |-> FloatPixelOf(gain_map_metadata.gain_map_min),
     gain_map_max |-> FloatPixelOf(gain_map_metadata.gain_map_max),
     offset_sdr |-> FloatPixelOf(gain_map_metadata.offset_sdr),
     offset_hdr |-> FloatPixelOf(gain_map_metadata.offset_hdr),
     weight_factor |-> ComputeWeightFactor(gain_map_metadata, log2_max_display_boost)]

\* uhdr.rs:42, one channel
LogBoost(gain_map_min, gain_map_max, log_recovery) ==
    FAdd(FMul(gain_map_min, FSub(One, log_recovery)), FMul(gain_map_max, log_recovery))

\* uhdr.rs:45, one channel
Boosted(sdr, offset_sdr, offset_hdr, boost) ==
    FSub(FMul(FAdd(sdr, offset_sdr), boost), offset_hdr)

\* UhdrBoostComputer::compute_boosted
ComputeBoosted(self, sdr, recovery) ==
    [c \in 1..3 |->
        Boosted(sdr[c], self.offset_sdr[c], self.offset_hdr[c],
                Exp2(FMul(LogBoost(self.gain_map_min[c], self.gain_map_max[c],
                                   Powf(recovery[c], self.inv_gamma[c])),
                          self.weight_factor)))]

\* ------------------------------------------------------------ colorspace.rs
\* A tag of a profile is [t, v]: t is "absent", or the variant read_tag
\* returns for it ("xyz", "triple", "curve", "mlu"), or "other" for any other
\* variant; v is the value.  Matrix entries are integers.

\* invert_matrix: the determinant.
Det(matrix) ==
      matrix[1][1] * (matrix[2][2] * matrix[3][3] - matrix[2][3] * matrix[3][2])
    - matrix[1][2] * (matrix[2][1] * matrix[3][3] - matrix[2][3] * matrix[3][1])
    + matrix[1][3] * (matrix[2][1] * matrix[3][2] - matrix[2][2] * matrix[3][1])

\* invert_matrix: the adjugate, entry by entry as the code writes it.
Adjugate(m) ==
    <<<<m[2][2] * m[3][3] - m[2][3] * m[3][2],
        m[1][3] * m[3][2] - m[1][2] * m[3][3],
        m[1][2] * m[2][3] - m[1][3] * m[2][2]>>,
      <<m[2][3] * m[3][1] - m[2][1] * m[3][3],
        m[1][1] * m[3][3] - m[1][3] * m[3][1],
        m[1][3] * m[2][1] - m[1][1] * m[2][3]>>,
      <<m[2][1] * m[3][2] - m[2][2] * m[3][1],
        m[1][2] * m[3][1] - m[1][1] * m[3][2],
        m[1][1] * m[2][2] - m[1][2] * m[2][1]>>>>

Scaled(adj, det) == [i \in 1..3 |-> [j \in 1..3 |-> Fin(adj[i][j], det)]]

\* invert_matrix: <<>> is None.  An integer determinant is below 1e-10 in
\* magnitude when it is 0.
InvertMatrix(matrix) ==
    IF Det(matrix) = 0 THEN <<>> ELSE <<Scaled(Adjugate(matrix), Det(matrix))>>

\* transform_right
TransformRight(row_vector, matrix) ==
    [i \in 1..3 |-> FAdd(FAdd(FMul(row_vector[1], matrix[1][i]),
                              FMul(row_vector[2], matrix[2][i])),
                         FMul(row_vector[3], matrix[3][i]))]

\* lcms2::XYZ2xyY: x = X / (X + Y + Z), y = Y / (X + Y + Z), Y = Y.
XyYOf(xyz, isum) == <<FMul(xyz[1], isum), FMul(xyz[2], isum), xyz[2]>>

XYZ2xyY(xyz) == XyYOf(xyz, FDiv(One, FAdd(FAdd(xyz[1], xyz[2]), xyz[3])))

\* ColorGamut::from_icc_profile: the to_d50 matrix of a chad triple.
ToD50(rows) ==
    <<<<rows.Red[1], rows.Green[1], rows.Blue[1]>>,
      <<rows.Red[2], rows.Green[2], rows.Blue[2]>>,
      <<rows.Red[3], rows.Green[3], rows.Blue[3]>>>>

\* The white point converted from D50 when there is a from_d50 matrix.
WhitePointOf(white_point, from_d50) ==
    XYZ2xyY(IF from_d50 # <<>> THEN TransformRight(white_point, from_d50[1])
            ELSE white_point)

Gamut(primaries, white_point) ==
    [kind |-> "Some", primaries |-> primaries, white_point |-> white_point]

NoGamut == [kind |-> "None", primaries |-> <<>>, white_point |-> <<>>]

GamutPanic == [kind |-> "Panic", primaries |-> <<>>, white_point |-> <<>>]

\* The primaries: the chrm triple if there is one, else the three colorants.
PrimariesOf(icc_profile, white_point) ==
    IF icc_profile.chrm.t = "other" THEN GamutPanic
    ELSE IF icc_profile.chrm.t = "triple"
         THEN Gamut(<<icc_profile.chrm.v.Red, icc_profile.chrm.v.Green,
                      icc_profile.chrm.v.Blue>>, white_point)
    ELSE IF icc_profile.rXYZ.t = "absent" THEN NoGamut
    ELSE IF icc_profile.rXYZ.t = "other" THEN GamutPanic
    ELSE IF icc_profile.gXYZ.t = "absent" THEN NoGamut
    ELSE IF icc_profile.gXYZ.t = "other" THEN GamutPanic
    ELSE IF icc_profile.bXYZ.t = "absent" THEN NoGamut
    ELSE IF icc_profile.bXYZ.t = "other" THEN GamutPanic
    ELSE Gamut(<<XYZ2xyY(icc_profile.rXYZ.v), XYZ2xyY(icc_profile.gXYZ.v),
                 XYZ2xyY(icc_profile.bXYZ.v)>>, white_point)

\* From the white point tag on, with the from_d50 matrix read.
GamutWith(icc_profile, from_d50) ==
    IF icc_profile.wtpt.t = "absent" THEN NoGamut
    ELSE IF icc_profile.wtpt.t = "other" THEN GamutPanic
    ELSE PrimariesOf(icc_profile, WhitePointOf(icc_profile.wtpt.v, from_d50))

\* ColorGamut::from_icc_profile
ColorGamutFromIccProfile(icc_profile) ==
    IF icc_profile.chad.t = "absent" THEN GamutWith(icc_profile, <<>>)
    ELSE IF icc_profile.chad.t = "other" THEN NoGamut
    ELSE IF InvertMatrix(ToD50(icc_profile.chad.v)) = <<>> THEN NoGamut
    ELSE GamutWith(icc_profile, InvertMatrix(ToD50(icc_profile.chad.v)))

\* ColorGamut::convert: the CIEXYZ coordinates of a CIExyY colour <<x, y, Y>>,
\* X = x * Y / y, Y, Z = (1 - x - y) * Y / y.
XyYToXYZ(c) ==
    <<FDiv(FMul(c[1], c[3]), c[2]),
      c[3],
      FDiv(FMul(FSub(FSub(One, c[1]), c[2]), c[3]), c[2])>>

\* ColorGamut::convert: src_rgb_to_XYZ and dst_rgb_to_XYZ, one row a primary.
RgbToXYZ(p) == <<XyYToXYZ(p[1]), XyYToXYZ(p[2]), XyYToXYZ(p[3])>>

\* a * b - c * d
Diff2(a, b, c, d) == FSub(FMul(a, b), FMul(c, d))

\* invert_matrix on the f64 matrices of convert: the determinant.
DetF64(m) ==
    FAdd(FSub(FMul(m[1][1], Diff2(m[2][2], m[3][3], m[2][3], m[3][2])),
              FMul(m[1][2], Diff2(m[2][1], m[3][3], m[2][3], m[3][1]))),
         FMul(m[1][3], Diff2(m[2][1], m[3][2], m[2][2], m[3][1])))

\* invert_matrix: the inverse, entry by entry as the code writes it.
InverseF64(m, inv_det) ==
    <<<<FMul(Diff2(m[2][2], m[3][3], m[2][3], m[3][2]), inv_det),
        FMul(Diff2(m[1][3], m[3][2], m[1][2], m[3][3]), inv_det),
        FMul(Diff2(m[1][2], m[2][3], m[1][3], m[2][2]), inv_det)>>,
      <<FMul(Diff2(m[2][3], m[3][1], m[2][1], m[3][3]), inv_det),
        FMul(Diff2(m[1][1], m[3][3], m[1][3], m[3][1]), inv_det),
        FMul(Diff2(m[1][3], m[2][1], m[1][1], m[2][3]), inv_det)>>,
      <<FMul(Diff2(m[2][1], m[3][2], m[2][2], m[3][1]), inv_det),
        FMul(Diff2(m[1][2], m[3][1], m[1][1], m[3][2]), inv_det),
        FMul(Diff2(m[1][1], m[2][2], m[1][2], m[2][1]), inv_det)>>>>

\* invert_matrix: <<>> is None.  A rational determinant of the model is
\* below 1e-10 in magnitude only when it is 0; a NaN or infinite one is not.
InvertMatrixF64(m) ==
    IF DetF64(m).k = "fin" /\ DetF64(m).n = 0 THEN <<>>
    ELSE <<InverseF64(m, FDiv(One, DetF64(m)))>>

\* ColorGamut::convert: [a, b, c] = dst white point XYZ * src_rgb_to_XYZ^-1.
ChromaticAdaptation(src, dst) ==
    TransformRight(XyYToXYZ(dst.white_point),
                   InvertMatrixF64(RgbToXYZ(src.primaries))[1])

\* ColorGamut::convert: value_XYZ scaled component by component, then taken
\* to the destination RGB.
ResultRgb(value_XYZ, chromatic_adaptation, XYZ_to_dst_rgb) ==
    TransformRight([i \in 1..3 |-> FMul(value_XYZ[i], chromatic_adaptation[i])],
                   XYZ_to_dst_rgb)

\* ColorGamut::convert(value, src, dst).  Both invert_matrix results are
\* unwrapped: a gamut whose primaries matrix has no inverse panics.
Convert(value, src, dst) ==
    IF \/ InvertMatrixF64(RgbToXYZ(src.primaries)) = <<>>
       \/ InvertMatrixF64(RgbToXYZ(dst.primaries)) = <<>>
    THEN [kind |-> "Panic", rgb |-> <<>>]
    ELSE [kind |-> "Ok",
          rgb |-> ResultRgb(TransformRight(value, RgbToXYZ(src.primaries)),
                            ChromaticAdaptation(src, dst),
                            InvertMatrixF64(RgbToXYZ(dst.primaries))[1])]

\* A tone curve tag read into Option<ToneCurve>: "None" or the curve.
CurveOf(tag) == IF tag.t = "curve" THEN tag.v ELSE "None"

\* TransferCharacteristics::from_icc_profile
TransferCharacteristicsFromIccProfile(icc_profile) ==
    <<CurveOf(icc_profile.rTRC), CurveOf(icc_profile.gTRC), CurveOf(icc_profile.bTRC)>>

\* read_mlu_tag panics on a tag that is no MLU and on an MLU without
\* translations.
MluPanics(tag) == tag.t \in {"other", "empty"}

\* read_mlu_tag on a tag that does not make it panic: <<>> is None.
ReadMluTag(tag) == IF tag.t = "mlu" THEN <<tag.v>> ELSE <<>>

IccOf(icc_profile, color_gamut) ==
    IF color_gamut.kind # "Some"
    THEN [kind |-> color_gamut.kind]
    ELSE [kind |-> "Some",
          description |-> ReadMluTag(icc_profile.desc),
          copyright |-> ReadMluTag(icc_profile.cprt),
          color_gamut |-> color_gamut,
          transfer_characteristics |->
              TransferCharacteristicsFromIccProfile(icc_profile)]

\* A reader that gives up on a profile that lacks a tone curve.
IccColorSpaceFromIccProfileAllCurves(icc_profile) ==
    IF MluPanics(icc_profile.desc) \/ MluPanics(icc_profile.cprt)
    THEN [kind |-> "Panic"]
    ELSE IF \/ icc_profile.rTRC.t = "absent"
            \/ icc_profile.gTRC.t = "absent"
            \/ icc_profile.bTRC.t = "absent"
    THEN [kind |-> "None"]
    ELSE IccOf(icc_profile, ColorGamutFromIccProfile(icc_profile))

\* IccColorSpace::from_icc_profile
IccColorSpaceFromIccProfile(icc_profile) ==
    IF MluPanics(icc_profile.desc) \/ MluPanics(icc_profile.cprt)
    THEN [kind |-> "Panic"]
    ELSE IccOf(icc_profile, ColorGamutFromIccProfile(icc_profile))

\* ------------------------------------------------------------------- inputs
\* The byte streams handed to the parsers are written from descriptors: a
\* descriptor names a header and the entries of one IFD, each entry with its
\* tag, its 16-bit type code, its count and its elements.  An element is a
\* tuple of fields and a field a tuple of digits (BYTE <<b>>, SHORT <<hi,lo>>,
\* RATIONAL two fields of four digits).  The writer lays a stream out as TIFF
\* 6.0 does: an 8-byte header, the IFD at offset 8 with one fixed-size record
\* per entry (tag, type, count, value slot), the next-IFD offset, then the
\* values that do not fit their slot.

RECURSIVE Flatten(_)
Flatten(ss) == IF ss = <<>> THEN <<>> ELSE Head(ss) \o Flatten(Tail(ss))

Zeros(n) == [i \in 1..n |-> 0]

\* A number below Huge as width digits.
Digits(n, width) == Zeros(width - 2) \o <<n \div 256, n % 256>>

\* Digits in stream order.
EncDigits(endianness, d) == IF endianness = "LittleEndian" THEN Rev(d) ELSE d

EncElement(endianness, elem) ==
    Flatten([f \in 1..Len(elem) |-> EncDigits(endianness, elem[f])])

EncValue(endianness, elems) ==
    Flatten([i \in 1..Len(elems) |-> EncElement(endianness, elems[i])])

DescEndianness(d) == IF d.magic = "MM" THEN "BigEndian" ELSE "LittleEndian"

DescSlot(d) == IF d.version = 43 THEN 8 ELSE 4

\* Where the IFD's out-of-line values start.
DescDataStart(d) == 8 + 2 + Len(d.entries) * (8 + DescSlot(d)) + 4

\* The bytes of a value that are written after the IFD: all of them when the
\* value does not fit the slot.
OutOfLineBytes(d, v) == IF Len(v) <= DescSlot(d) THEN <<>> ELSE v

\* The offset of entry k's value when it is out of line: after the values of
\* the out-of-line entries before it.
RECURSIVE DescDataOffset(_, _)
DescDataOffset(d, k) ==
    IF k = 1 THEN DescDataStart(d)
    ELSE DescDataOffset(d, k - 1)
           + Len(OutOfLineBytes(d, EncValue(DescEndianness(d), d.entries[k - 1].elems)))

SlotOf(d, k, v) ==
    IF Len(v) <= DescSlot(d) THEN v \o Zeros(DescSlot(d) - Len(v))
    ELSE EncDigits(DescEndianness(d), Digits(DescDataOffset(d, k), DescSlot(d)))

WriteEntry(d, k) ==
    EncDigits(DescEndianness(d), d.entries[k].tag)
        \o EncDigits(DescEndianness(d), Digits(d.entries[k].code, 2))
        \o EncDigits(DescEndianness(d), Digits(d.entries[k].count, 4))
        \o SlotOf(d, k, EncValue(DescEndianness(d), d.entries[k].elems))

WriteMagic(d) ==
    IF d.magic = "II" THEN <<73, 73>>
    ELSE IF d.magic = "MM" THEN <<77, 77>> ELSE <<88, 88>>

\* The IFDs after the first (d.later) follow the first IFD's values, one
\* after the other; their entries hold their values in the slot.
IfdLen(d, n) == 2 + n * (8 + DescSlot(d)) + 4

RECURSIVE LaterStart(_, _)
LaterStart(d, k) ==
    IF k = 1 THEN DescDataOffset(d, Len(d.entries) + 1)
    ELSE LaterStart(d, k - 1) + IfdLen(d, Len(d.later[k - 1].entries))

WriteInlineEntry(d, e) ==
    EncDigits(DescEndianness(d), e.tag)
        \o EncDigits(DescEndianness(d), Digits(e.code, 2))
        \o EncDigits(DescEndianness(d), Digits(e.count, 4))
        \o SlotOf(d, 1, EncValue(DescEndianness(d), e.elems))

WriteLater(d, k) ==
    EncDigits(DescEndianness(d), Digits(d.later[k].entry_count, 2))
        \o Flatten([i \in 1..Len(d.later[k].entries) |->
                      WriteInlineEntry(d, d.later[k].entries[i])])
        \o EncDigits(DescEndianness(d),
                     Digits(IF k < Len(d.later) THEN LaterStart(d, k + 1) ELSE 0, 4))

WriteTiff(d) ==
    WriteMagic(d)
        \o EncDigits(DescEndianness(d), Digits(d.version, 2))
        \o EncDigits(DescEndianness(d), Digits(d.first, 4))
        \o EncDigits(DescEndianness(d), Digits(d.entry_count, 2))
        \o Flatten([k \in 1..Len(d.entries) |-> WriteEntry(d, k)])
        \o EncDigits(DescEndianness(d), Digits(d.next, 4))
        \o Flatten([k \in 1..Len(d.entries) |->
                      OutOfLineBytes(d, EncValue(DescEndianness(d), d.entries[k].elems))])
        \o Flatten([k \in 1..Len(d.later) |-> WriteLater(d, k)])

\* The field widths of one element of a type code (TIFF 6.0); one byte for a
\* code that is no field type.
FieldWidths(code) ==
    CASE code \in {3, 8} -> <<2>>
      [] code \in {4, 9, 11} -> <<4>>
      [] code \in {5, 10} -> <<4, 4>>
      [] code = 12 -> <<8>>
      [] OTHER -> <<1>>

\* Element i (from 0) of a generated entry: digits that differ by position,
\* so that a misplaced or reversed byte shows; an SBYTE is negative.
GenElement(code, i) ==
    [f \in 1..Len(FieldWidths(code)) |->
        [j \in 1..FieldWidths(code)[f] |->
            IF code = 6 THEN 250 - i ELSE 16 * i + 8 * (f - 1) + j]]

GenEntry(k, code, count) ==
    [tag |-> <<1, k>>, code |-> code, count |-> count,
     elems |-> [i \in 1..count |-> GenElement(code, i - 1)]]

\* The type codes of generated entries: the twelve implemented ones, LONG8
\* and SLONG8, and codes that are no field type.
TypeCodes == (0..13) \cup {16, 17}

GenDesc(magic, version, entries) ==
    [magic |-> magic, version |-> version, first |-> 8,
     entry_count |-> Len(entries), entries |-> entries, next |-> 0,
     family |-> "tiff", images |-> 0, records |-> <<>>, variant |-> "ok",
     later |-> <<>>]

\* IFDs of one entry of every type code and count, and of two entries, the
\* second a SHORT (inline, shorter than its slot) or a LONG pair.
FirstEntries == {GenEntry(1, c, n) : c \in TypeCodes, n \in 0..MaxCount}

SecondEntries == {GenEntry(2, 3, 1), GenEntry(2, 4, 2)}

TiffDescs ==
    {GenDesc(m, v, l) : m \in {"II", "MM"}, v \in {42, 43},
                        l \in {<<a>> : a \in FirstEntries}
                               \cup {<<a, b>> : a \in FirstEntries, b \in SecondEntries}}

\* Streams whose header, entry count or chain is off.
OddDescsOf(l) ==
    {GenDesc("XX", 42, l), GenDesc("II", 41, l), GenDesc("MM", 44, l),
     [GenDesc("II", 42, l) EXCEPT !.first = 200],
     [GenDesc("MM", 42, <<>>) EXCEPT !.entry_count = 0],
     [GenDesc("II", 42, l) EXCEPT !.next = 8],
     [GenDesc("MM", 42, l) EXCEPT !.next = 8]}

OddDescs == OddDescsOf(<<GenEntry(1, 4, 1)>>)

\* Chains of IFDs: a first IFD of one entry (a LONG that fills its slot, a
\* BYTE or a SHORT shorter than the slot, a pair of LONGs out of line) and up
\* to MaxIfds - 1 IFDs after it, each of 0, 1 or 2 LONG entries or of one
\* SHORT entry; every IFD but the last stores the offset of the next.
LaterIfd(codes) ==
    [entry_count |-> Len(codes),
     entries |-> [k \in 1..Len(codes) |-> GenEntry(k, codes[k], 1)]]

LaterIfds == {LaterIfd(codes) : codes \in {<<>>, <<4>>, <<4, 4>>, <<3>>}}

RECURSIVE SeqsUpTo(_, _)
SeqsUpTo(S, n) ==
    IF n = 0 THEN {<<>>}
    ELSE SeqsUpTo(S, n - 1)
           \cup {Append(l, x) : l \in {m \in SeqsUpTo(S, n - 1) : Len(m) = n - 1}, x \in S}

Chained(d) ==
    [d EXCEPT !.next = IF d.later = <<>> THEN 0 ELSE LaterStart(d, 1)]

GenChain(magic, entry, later) ==
    Chained([GenDesc(magic, 42, <<entry>>) EXCEPT !.family = "chain", !.later = later])

ChainDescs ==
    {GenChain(m, e, l) :
        m \in {"II", "MM"},
        e \in {GenEntry(1, 4, 1), GenEntry(1, 1, 1), GenEntry(1, 3, 1), GenEntry(1, 4, 2)},
        l \in SeqsUpTo(LaterIfds, MaxIfds - 1)}

\* An MP Entry record: its five fields as digits.
GenRecord(i, size, offset) ==
    [individual_image_attribute |-> <<i, 0, 3, 0>>,
     individual_image_size |-> Digits(size, 4),
     individual_image_data_offset |-> Digits(offset, 4),
     dependent_image_1_entry_number |-> <<0, i>>,
     dependent_image_2_entry_number |-> <<i, 0>>]

\* The 16 bytes of a record in a stream (CIPA DC-007, 5.2.3.3).
EncRecord(endianness, r) ==
    r.individual_image_attribute
        \o EncDigits(endianness, r.individual_image_size)
        \o EncDigits(endianness, r.individual_image_data_offset)
        \o EncDigits(endianness, r.dependent_image_1_entry_number)
        \o EncDigits(endianness, r.dependent_image_2_entry_number)

BytesAsElems(bs) == [i \in 1..Len(bs) |-> <<<<bs[i]>>>>]

\* The records of a payload: the first image's size is `size`; `alt` picks
\* the other sizes and the data offsets (rising, equal, falling).
GenRecords(n, size, alt) ==
    [i \in 1..n |->
        GenRecord(i, IF i = 1 THEN size ELSE alt + 1,
                  CASE alt = 0 -> 4 * (i - 1) [] alt = 1 -> 1 [] OTHER -> 9 - 4 * i)]

MpfVariants ==
    {"ok", "no_version", "no_count", "no_entries", "version_type",
     "version_value", "count_type", "entries_type", "entries_len"}

VersionEntry(variant) ==
    [tag |-> <<176, 0>>,
     code |-> IF variant = "version_type" THEN 1 ELSE 7,
     count |-> 4,
     elems |-> BytesAsElems(IF variant = "version_value" THEN <<48, 49, 48, 49>>
                            ELSE <<48, 49, 48, 48>>)]

NumberOfImagesEntry(n, variant) ==
    IF variant = "count_type"
    THEN [tag |-> <<176, 1>>, code |-> 3, count |-> 1, elems |-> <<<<Digits(n, 2)>>>>]
    ELSE [tag |-> <<176, 1>>, code |-> 4, count |-> 1, elems |-> <<<<Digits(n, 4)>>>>]

MpEntryEntry(recbytes, variant) ==
    [tag |-> <<176, 2>>,
     code |-> IF variant = "entries_type" THEN 1 ELSE 7,
     count |-> Len(recbytes),
     elems |-> BytesAsElems(recbytes)]

EncRecords(endianness, recs) ==
    Flatten([i \in 1..Len(recs) |-> EncRecord(endianness, recs[i])])

MpfDescOf(magic, n, recs, variant, list) ==
    [magic |-> magic, version |-> 42, first |-> 8,
     entry_count |-> Len(list), entries |-> list, next |-> 0,
     family |-> "mpf", images |-> n, records |-> recs, variant |-> variant,
     later |-> <<>>]

MpfDescOfRecords(magic, n, recs, variant) ==
    MpfDescOf(magic, n, recs, variant,
        (IF variant = "no_version" THEN <<>> ELSE <<VersionEntry(variant)>>)
          \o (IF variant = "no_count" THEN <<>> ELSE <<NumberOfImagesEntry(n, variant)>>)
          \o (IF variant = "no_entries" THEN <<>>
              ELSE <<MpEntryEntry(EncRecords(IF magic = "MM" THEN "BigEndian"
                                             ELSE "LittleEndian", recs), variant)>>))

\* An MPF payload: the MP Index IFD with 0xB000, 0xB001 and 0xB002, or a
\* variant of it that lacks an entry or has one of the wrong shape.
MpfDesc(magic, n, size, alt, variant) ==
    MpfDescOfRecords(magic, n,
        GenRecords(IF variant = "entries_len" THEN n + 1 ELSE n, size, alt), variant)

MpfDescs ==
    {MpfDesc(m, n, s, a, "ok") :
        m \in {"II", "MM"}, n \in 0..MaxImages, s \in 0..(MaxOrigLen + 1), a \in 0..2}
    \cup {MpfDesc(m, n, 1, 0, v) :
        m \in {"II", "MM"}, n \in 0..MaxImages, v \in MpfVariants}

\* original_bytes of a length: bytes that differ by position.
OrigBytes(len) == [i \in 1..len |-> 200 + i]


\* The largest width and height of a sampled image.
MaxDim == 2

\* The pixel bytes of a decoded image: multiples of 17 that differ from one
\* index to the next.
GenPixels(n, shift) == [i \in 1..n |-> 17 * ((5 * (i - 1) + shift) % 16)]

GenImage(w, h, cs, shift, icc) ==
    [width |-> w, height |-> h, jpeg_color_space |-> cs,
     pixels |-> GenPixels(IF cs = "RGB" THEN w * h * 3 ELSE w * h, shift),
     icc_color_space |-> icc]

\* Decoded JPEGs: RGB and Luma, without an ICC colour space and with one
\* whose green channel has no tone curve.
Images ==
    {GenImage(w, h, cs, shift, icc) :
        w \in 1..MaxDim, h \in 1..MaxDim, cs \in {"RGB", "Luma"}, shift \in {0, 3},
        icc \in {<<>>, <<<<"srgb", "None", "gamma18">>>>}}

\* XMP packets.  A field of the Description is given in one form: as an
\* attribute, or as a child element with a text or with a Seq of li.
Attr(name, value) ==
    [attrs |-> <<[name |-> name, value |-> value]>>, children |-> <<>>]

ChildText(name, text) ==
    [attrs |-> <<>>, children |-> <<[name |-> name, text |-> <<text>>, seq |-> <<>>]>>]

ChildEmpty(name) ==
    [attrs |-> <<>>, children |-> <<[name |-> name, text |-> <<>>, seq |-> <<>>]>>]

\* An li with a text; "" stands for an li without a text node.
Li(text) == [name |-> "li", text |-> IF text = "" THEN <<>> ELSE <<text>>]

ChildSeq(name, texts) ==
    [attrs |-> <<>>,
     children |-> <<[name |-> name, text |-> <<>>,
                     seq |-> <<[i \in 1..Len(texts) |-> Li(texts[i])]>>]>>]

NoField == [attrs |-> <<>>, children |-> <<>>]

Join(a, b) == [attrs |-> a.attrs \o b.attrs, children |-> a.children \o b.children]

Packet(description) == [kind |-> "xml", description |-> <<description>>]

TripleFields == {"GainMapMin", "GainMapMax", "Gamma", "OffsetSDR", "OffsetHDR"}

\* The forms of a triple field: absent, an attribute, a child with a scalar
\* text, an empty child, and a child with a Seq of three li, of two, of
\* four, and with an li that is no number or has no text.
TripleForms(name) ==
    {NoField, ChildEmpty(name)}
    \cup {Attr(name, t) : t \in {"2.0", "0.5", "abc"}}
    \cup {ChildText(name, t) : t \in {"2.0", "0.5", "abc"}}
    \cup {ChildSeq(name, l) :
            l \in {<<"1", "2.0", "3">>, <<"1", "2.0">>, <<"1", "2.0", "3", "4">>,
                   <<"1", "abc", "3", "4">>, <<"1", "", "3">>, <<>>}}

\* The forms of a scalar field.
ScalarForms(name) ==
    {NoField, ChildEmpty(name)}
    \cup {Attr(name, t) : t \in {"3", "0.5", "abc", " 3"}}
    \cup {ChildText(name, t) : t \in {"3", "0.5", "abc", " 3"}}

\* The other seven fields, all given.
OtherFields ==
    Join(Attr("BaseRenditionIsHDR", "true"),
    Join(Attr("GainMapMin", "-1"),
    Join(ChildSeq("GainMapMax", <<"1", "2.0", "3">>),
    Join(Attr("Gamma", "2.0"),
    Join(Attr("OffsetSDR", "0"),
    Join(ChildSeq("OffsetHDR", <<"0", "0.5", "1">>),
         ChildText("HDRCapacityMin", "1")))))))

TriplePackets ==
    {Packet(Join(f, Attr("HDRCapacityMax", "3"))) :
        f \in UNION {TripleForms(n) : n \in TripleFields}}

CapacityMaxPackets ==
    {Packet(Join(o, f)) : o \in {NoField, OtherFields}, f \in ScalarForms("HDRCapacityMax")}

\* Bytes that are no XML document, and a document without a Description.
BrokenPackets ==
    {[kind |-> "not_xml", description |-> <<>>], [kind |-> "xml", description |-> <<>>]}

\* The capacities: minimum below, at and above the maximum.
CapacityPackets ==
    {Packet(Join(b, Join(lo, Attr("HDRCapacityMax", hi)))) :
        b \in {NoField, Attr("BaseRenditionIsHDR", "true"),
               Attr("BaseRenditionIsHDR", "false")},
        lo \in {NoField} \cup {Attr("HDRCapacityMin", t) : t \in {"1", "2.0", "4"}},
        hi \in {"1", "2.0", "3", "4"}}

Packets == TriplePackets \cup CapacityMaxPackets \cup CapacityPackets \cup BrokenPackets

\* The values of log2_max_display_boost.
MaxBoost == 5

Boosts == {Fin(i, 1) : i \in 0..MaxBoost}

\* ICC profiles: every combination of presence and absence of the nine
\* tags, the chad tag with an invertible and with a singular matrix, and
\* profiles in which one tag is read as another variant.
Triple(r, g, b) == [Red |-> r, Green |-> g, Blue |-> b]

ChadInvertible == Triple(<<1, 0, 0>>, <<1, 1, 0>>, <<0, 0, 2>>)

ChadSingular == Triple(<<1, 2, 3>>, <<1, 2, 3>>, <<0, 0, 1>>)

TagValue(name) ==
    CASE name = "wtpt" -> <<Fin(24, 25), One, Fin(21, 25)>>
      [] name = "chrm" -> Triple(<<Fin(16, 25), Fin(33, 100), One>>,
                                 <<Fin(3, 10), Fin(3, 5), One>>,
                                 <<Fin(3, 20), Fin(3, 50), One>>)
      [] name = "rXYZ" -> <<Fin(11, 25), Fin(11, 50), Fin(1, 50)>>
      [] name = "gXYZ" -> <<Fin(19, 50), Fin(18, 25), Fin(1, 10)>>
      [] name = "bXYZ" -> <<Fin(7, 50), Fin(3, 50), Fin(18, 25)>>
      [] name = "rTRC" -> "srgb"
      [] name = "gTRC" -> "gamma18"
      [] name = "bTRC" -> "srgb"
      [] name = "desc" -> "Display"
      [] name = "cprt" -> "No copyright"

TagVariant(name) ==
    CASE name \in {"wtpt", "rXYZ", "gXYZ", "bXYZ"} -> "xyz"
      [] name \in {"chrm", "chad"} -> "triple"
      [] name \in {"rTRC", "gTRC", "bTRC"} -> "curve"
      [] name \in {"desc", "cprt"} -> "mlu"

\* The tag of a name in a profile with the tags of `present`, of which
\* those of `others` are read as another variant.
TagOf(name, present, others, v) ==
    [t |-> IF name \notin present THEN "absent"
           ELSE IF name \in others THEN "other"
           ELSE TagVariant(name),
     v |-> v]

ProfileOf(present, others, chad, desc) ==
    [desc |-> [t |-> desc, v |-> TagValue("desc")],
     cprt |-> TagOf("cprt", present, others, TagValue("cprt")),
     chad |-> TagOf("chad", present, others, chad),
     wtpt |-> TagOf("wtpt", present, others, TagValue("wtpt")),
     chrm |-> TagOf("chrm", present, others, TagValue("chrm")),
     rXYZ |-> TagOf("rXYZ", present, others, TagValue("rXYZ")),
     gXYZ |-> TagOf("gXYZ", present, others, TagValue("gXYZ")),
     bXYZ |-> TagOf("bXYZ", present, others, TagValue("bXYZ")),
     rTRC |-> TagOf("rTRC", present, others, TagValue("rTRC")),
     gTRC |-> TagOf("gTRC", present, others, TagValue("gTRC")),
     bTRC |-> TagOf("bTRC", present, others, TagValue("bTRC"))]

NineTags == {"wtpt", "chad", "chrm", "rXYZ", "gXYZ", "bXYZ", "rTRC", "gTRC", "bTRC"}

PresenceProfiles ==
    {ProfileOf(present \cup {"cprt"}, {}, chad, "mlu") :
        present \in SUBSET NineTags, chad \in {ChadInvertible, ChadSingular}}

OtherVariantProfiles ==
    {ProfileOf((NineTags \ absent) \cup {"cprt"}, {name}, ChadInvertible, "mlu") :
        name \in NineTags \cup {"cprt"}, absent \in {{}, {"chrm"}}}
    \cup {ProfileOf(NineTags, {}, ChadInvertible, desc) :
            desc \in {"absent", "empty", "other"}}

Profiles == PresenceProfiles \cup OtherVariantProfiles

\* Tag values for the gamuts handed to ColorGamut::convert: a white point of
\* XYZ (1/2, 1, 1/2), a chrm triple (whose Y lcms2 reads as 1.0), and three
\* colorants that add up to the white point; in the second record the red and
\* green colorants coincide.
GamutTagValues ==
    {[wtpt |-> <<Fin(1, 2), One, Fin(1, 2)>>,
      chrm |-> Triple(<<Fin(1, 2), Fin(1, 4), One>>,
                      <<Fin(1, 4), Fin(1, 2), One>>,
                      <<Fin(1, 4), Fin(1, 4), One>>),
      rXYZ |-> <<Fin(1, 4), Fin(1, 4), Zero>>,
      gXYZ |-> g,
      bXYZ |-> <<Fin(1, 8), Fin(1, 4), Fin(3, 8)>>] :
        g \in {<<Fin(1, 8), Fin(1, 2), Fin(1, 8)>>, <<Fin(1, 4), Fin(1, 4), Zero>>}}

WithTagValues(icc_profile, tv) ==
    [icc_profile EXCEPT !.wtpt.v = tv.wtpt, !.chrm.v = tv.chrm,
                        !.rXYZ.v = tv.rXYZ, !.gXYZ.v = tv.gXYZ, !.bXYZ.v = tv.bXYZ]

GamutProfiles == {WithTagValues(p, tv) : p \in PresenceProfiles, tv \in GamutTagValues}

\* Linear RGB values handed to ColorGamut::convert.
RgbValues ==
    {<<One, One, One>>, <<One, Zero, Zero>>, <<Zero, One, Zero>>,
     <<Zero, Zero, One>>, <<Fin(1, 2), Fin(1, 4), Zero>>, <<Zero, Zero, Zero>>}

\* GainMapMetadata records for the compositor: gains of -4, 0 and 4, gammas
\* of 1, 2, -2 and 0, offsets of 0, 1/64 and 1, and capacities for which the
\* weight factor is 0, 1 or NaN.
Splat(v) == <<v, v, v>>

Metadatas ==
    {[base_rendition_is_hdr |-> b,
      gain_map_min |-> Splat(lo * Unit), gain_map_max |-> Splat(hi * Unit),
      gamma |-> Splat(gamma),
      offset_sdr |-> Splat(off[1]), offset_hdr |-> Splat(off[2]),
      hdr_capacity_min |-> 2 * Unit, hdr_capacity_max |-> cap * Unit] :
        b \in BOOLEAN, lo \in {0 - 4, 0, 4}, hi \in {0 - 4, 0, 4},
        gamma \in {Unit, 2 * Unit, 0 - 2 * Unit, 0},
        off \in {<<0, 0>>, <<1, 1>>, <<Unit, 0>>}, cap \in {2, 3}}

\* The linear SDR pixels and the gain-map samples handed to compute_boosted.
SdrPixels == {<<Zero, Fin(1, 2), One>>, <<One, Zero, Fin(1, 2)>>}

Recoveries ==
    {<<Zero, Fin(1, 4), One>>, <<One, Zero, Fin(1, 4)>>, <<Fin(1, 4), One, Zero>>}

\* -------------------------------------------------------------------- state
\* ----------------------------------------------------------------- main.rs
\* Args, main.rs:22-46: the two paths are "None" or Some(path); the boosts
\* and white level do not decide an exit status and are left out.
Args(input_file_path, stdin, output_file_path, stdout) ==
    [input_file_path |-> input_file_path, stdin |-> stdin,
     output_file_path |-> output_file_path, stdout |-> stdout]

\* std::process::Termination for main's Result<(), String>: Ok is status 0,
\* Err is status 1, and a panic that unwinds out of main is status 101.
ExitStatus(outcome) ==
    CASE outcome = "Ok" -> 0
      [] outcome = "Err" -> 1
      [] outcome = "Panic" -> 101

\* main.rs:53-61: the reader, or the error main returns
OpenReader(a, opens) ==
    IF a.input_file_path # "None"
    THEN IF opens
         THEN [kind |-> "Ok", v |-> "file"]
         ELSE [kind |-> "Err", v |-> "Failed to open input file"]
    ELSE IF a.stdin
         THEN [kind |-> "Ok", v |-> "stdin"]
         ELSE [kind |-> "Err", v |-> "No input file specified and stdin not enabled"]

\* main.rs:68-76: the writer, or the error main returns
OpenWriter(a, creates) ==
    IF a.output_file_path # "None"
    THEN IF creates
         THEN [kind |-> "Ok", v |-> "file"]
         ELSE [kind |-> "Err", v |-> "Failed to create output file"]
    ELSE IF a.stdout
         THEN [kind |-> "Ok", v |-> "stdout"]
         ELSE [kind |-> "Err", v |-> "No output file specified and stdout not enabled"]

\* main.rs:70: File::create creates or truncates the path when it succeeds
FileCreated(a, creates) == a.output_file_path # "None" /\ creates

\* write_hdr10_ycbcr_pixels_to_avif, outavif.rs:64-80: the encoder's result
\* is unwrapped, the write's result is returned.
WriteHdr10YcbcrPixelsToAvif(encoded, written) ==
    IF ~encoded
    THEN [kind |-> "Panic", v |-> "unwrap: encoder"]
    ELSE IF ~written
         THEN [kind |-> "Err", v |-> "write_all"]
         ELSE [kind |-> "Ok", v |-> ""]

\* UhdrConverter::new: the converter, or the error of reading and parsing
\* the input.
UhdrConverterNew(constructs) ==
    IF constructs
    THEN [kind |-> "Ok", v |-> "Ok"]
    ELSE [kind |-> "Err", v |-> "Failed to create UHDR converter"]

\* UhdrConverter::convert_to_avif: the orchestrator's own errors, then the
\* sink's outcome.
ConvertToAvif(converts, encoded, written) ==
    IF ~converts
    THEN [kind |-> "Err", v |-> "Failed to convert UHDR JPEG to AVIF"]
    ELSE WriteHdr10YcbcrPixelsToAvif(encoded, written)

\* An order of main's statements in which the output is opened before the
\* converter is constructed.
MainNextOutputFirst(at) ==
    CASE at = "input" -> "output"
      [] at = "output" -> "converter"
      [] at = "converter" -> "convert"
      [] at = "convert" -> "exited"

\* main.rs:53-83: the order of main's statements
MainNext(at) ==
    CASE at = "input" -> "converter"
      [] at = "converter" -> "output"
      [] at = "output" -> "convert"
      [] at = "convert" -> "exited"

\* The command lines: each path absent, usable or unusable by the file system.
InputPaths == {"None", "in.jpg"}

OutputPaths == {"None", "out.avif"}

ArgsSet ==
    {Args(i, si, o, so) : i \in InputPaths, si \in BOOLEAN,
                          o \in OutputPaths, so \in BOOLEAN}

\* ---------------------------------------------------------------- pixel.rs
\* FloatPixel::zero()
FloatPixelZero == <<Zero, Zero, Zero>>

\* FloatImageContent::with_extent, pixel.rs:13-17
WithExtent(width, height) ==
    [width |-> width, height |-> height,
     pixels |-> [i \in 1..(width * height) |-> FloatPixelZero]]

\* pixel.rs:20 and 29: the index of a coordinate, from 0
FloatIndex(c, x, y) == y * c.width + x

\* FloatImageContent::get_at, pixel.rs:19-26
GetAt(c, x, y) ==
    IF FloatIndex(c, x, y) < Len(c.pixels)
    THEN [kind |-> "Ok", pixel |-> <<c.pixels[FloatIndex(c, x, y) + 1]>>, content |-> c]
    ELSE [kind |-> "Panic", pixel |-> <<>>, content |-> c]

\* FloatImageContent::set_at, pixel.rs:28-35
SetAt(c, x, y, pixel) ==
    IF FloatIndex(c, x, y) < Len(c.pixels)
    THEN [kind |-> "Ok", pixel |-> <<>>,
          content |-> [c EXCEPT !.pixels[FloatIndex(c, x, y) + 1] = pixel]]
    ELSE [kind |-> "Panic", pixel |-> <<>>, content |-> c]

\* The pixel the calls write.
FloatPixelWritten == <<One, Fin(1, 2), Zero>>

\* ------------------------------------------------------------- outavif.rs
\* The values of the PQ curve are kept in units of 1 / PqScale.
PqScale == 64

\* Channel values that are not clamped to the range of HDR10 PQ.
ClampNitsMissing(v) == v

\* v.clamp(0.0, 10000.0), outavif.rs:26-28: NaN stays NaN.
ClampNits(v) ==
    IF v.k = "nan" THEN NaN
    ELSE IF FLess(v, Zero) THEN Zero
    ELSE IF FLess(Fin(10000, 1), v) THEN Fin(10000, 1)
    ELSE v

\* st2084_oetf, outavif.rs:89-104, of a number x >= 0, rounded to a multiple
\* of 1 / PqScale: ((C1 + C2 * x^M1) / (1 + C3 * x^M1))^M2.
St2084Table(x) ==
    CASE x = Zero -> 0
      [] x = Fin(1, 10000) -> 10
      [] x = Fin(1, 100) -> 33
      [] x = Fin(1, 10) -> 48
      [] x = One -> PqScale
      [] x = Fin(2, 1) -> 69

\* st2084_oetf(color): <<>> is NaN, which NaN and both infinities yield
\* (inf / inf); a number goes by its absolute value, outavif.rs:97.
St2084Oetf(color) ==
    IF color.k # "fin" THEN <<>> ELSE <<St2084Table(Fin(Abs(color.n), color.d))>>

\* outavif.rs:31-33: one channel, normalized and PQ-encoded
PqOf(v) == St2084Oetf(FDiv(ClampNits(v), Fin(10000, 1)))

\* (v * 1023.0).round() as u16 for v = n / d with d even, outavif.rs:42-44:
\* round half away from zero, then a cast that saturates.
Quantize(n, d) ==
    IF n < 0 THEN 0 ELSE Min(65535, (n * 1023 + d \div 2) \div d)

\* outavif.rs:37: 0.2627 * r + 0.6780 * g + 0.0593 * b, in units of
\* 1 / (10000 * PqScale)
LumaNum(r, g, b) == 2627 * r + 6780 * g + 593 * b

\* outavif.rs:37-45: Y', Cb = (b - y) / 1.8814 + 0.5 and
\* Cr = (r - y) / 1.4746 + 0.5, quantized
YcbcrOf(r, g, b, y) ==
    <<Quantize(y, 10000 * PqScale),
      Quantize(b * 10000 - y + 9407 * PqScale, 18814 * PqScale),
      Quantize(r * 10000 - y + 7373 * PqScale, 14746 * PqScale)>>

\* outavif.rs:31-45: a NaN channel makes y, cb and cr NaN, and NaN casts to 0
YcbcrOfPq(r, g, b) ==
    IF r = <<>> \/ g = <<>> \/ b = <<>>
    THEN <<0, 0, 0>>
    ELSE YcbcrOf(r[1], g[1], b[1], LumaNum(r[1], g[1], b[1]))

\* outavif.rs:21-45: the triple pushed for the pixel get_at returned
YcbcrOfPixel(got) == YcbcrOfPq(PqOf(got.pixel[1][1]), PqOf(got.pixel[1][2]), PqOf(got.pixel[1][3]))

\* write_hdr10_linear_pixels_to_avif, outavif.rs:18-49: the pixels handed to
\* write_hdr10_ycbcr_pixels_to_avif, y in the outer loop and x in the inner;
\* a get_at that panics ends the call.
WriteHdr10LinearPixelsToAvif(width, height, c) ==
    IF \E x \in 0..(width - 1), y \in 0..(height - 1) : GetAt(c, x, y).kind = "Panic"
    THEN [kind |-> "Panic", ycbcr_pixels |-> <<>>]
    ELSE [kind |-> "Ok",
          ycbcr_pixels |->
              [i \in 1..(width * height) |->
                  YcbcrOfPixel(GetAt(c, (i - 1) % width, (i - 1) \div width))]]

\* The pixels of the linear images: the extremes of the three output
\* channels, values below 0 and above 10000, infinities and NaN.
LinearPixels ==
    <<<<Zero, Zero, Zero>>,
      <<Fin(10000, 1), Fin(10000, 1), Fin(10000, 1)>>,
      <<Zero, Zero, Fin(10000, 1)>>,
      <<Fin(10000, 1), Fin(10000, 1), Zero>>,
      <<Fin(10000, 1), Zero, Zero>>,
      <<Zero, Fin(10000, 1), Fin(10000, 1)>>,
      <<Fin(0 - 1, 1), Fin(20000, 1), Fin(100, 1)>>,
      <<NaN, Fin(100, 1), Fin(1000, 1)>>,
      <<Inf, NegInf, Zero>>,
      <<Fin(100, 1), Fin(1000, 1), Fin(10000, 1)>>,
      <<Fin(1000, 1), NaN, NaN>>,
      <<Fin(20000, 1), Fin(20000, 1), Fin(20000, 1)>>,
      <<Inf, Inf, Inf>>,
      <<NegInf, Fin(0 - 1, 1), Zero>>,
      <<Fin(100, 1), Fin(100, 1), Fin(100, 1)>>,
      <<Fin(1000, 1), Zero, Fin(100, 1)>>>>

\* The image of an extent whose pixels run through LinearPixels from seed on.
LinearImage(width, height, seed) ==
    [width |-> width, height |-> height,
     pixels |-> [i \in 1..(width * height) |->
                    LinearPixels[((seed + i) % Len(LinearPixels)) + 1]]]

LinearImages ==
    {LinearImage(w, h, seed) :
        w \in 0..MaxDim, h \in 0..MaxDim, seed \in 0..(Len(LinearPixels) - 1)}

VARIABLES
    desc,                 \* the descriptor mpf_bytes was written from
    mpf_bytes,            \* self.mpf_bytes(): <<>> (None) or <<bytes>>
    original_bytes,       \* the argument of extract_gain_map_jpeg
    pc,                   \* where extract_gain_map_jpeg and its callees are
    header,               \* Tiff::from_reader's header, <<>> before it is read
    ifd_offset,           \* Tiff::from_reader's ifd_offset: <<>> or <<digits>>
    ifds,                 \* Tiff::from_reader's ifds
    tiff_result,          \* what Tiff::from_reader returned
    mpf_result,           \* what MpfInfo::new_from_bytes returned
    mp_entries,           \* the MpfInfo's mp_entries
    gain_map_jpeg_bytes,  \* <<>> or <<the slice handed to the JPEG decoder>>
    result,               \* what extract_gain_map_jpeg returned
    panic,                \* the message of the panic that ended the run, or ""
    image,                \* the UhdrJpeg whose pixels are read
    call,                 \* the last pixel operation: arguments and return
    xmp,                  \* the XMP packet of the gain-map JPEG
    parsed,               \* what GainMapMetadata::new_from_xmp_bytes returned
    computer,             \* <<>> or <<the UhdrBoostComputer>>
    boosted,              \* <<>> or <<compute_boosted's arguments and return>>
    weight,               \* <<>> or <<compute_weight_factor's argument and return>>
    profile,              \* the ICC profile
    icc_color_space,      \* what IccColorSpace::from_icc_profile returned
    args,                 \* main's parsed command line
    main_pc,              \* the statement of main that runs next
    reader,               \* main's reader: "none", "file" or "stdin"
    converter,            \* main's uhdr_converter: "none" or "Ok"
    output_file,          \* the output path: "untouched" or "created"
    exit_status,          \* <<>> while main runs, then <<the exit status>>
    failure,              \* the error that ended main, or ""
    content,              \* the FloatImageContent
    float_call,           \* the last get_at or set_at: arguments and outcome
    avif_call,            \* <<>> or <<what write_hdr10_linear_pixels_to_avif did>>
    converted             \* <<>> or <<ColorGamut::convert's argument and return>>

containerVars ==
    <<desc, mpf_bytes, original_bytes, pc, header, ifd_offset, ifds, tiff_result,
      mpf_result, mp_entries, gain_map_jpeg_bytes, result, panic>>

pixelVars == <<image, call>>

metaVars == <<xmp, parsed, computer, boosted, weight>>

iccVars == <<profile, icc_color_space>>

mainVars == <<args, main_pc, reader, converter, output_file, exit_status, failure>>

floatVars == <<content, float_call>>

avifVars == <<avif_call>>

gamutVars == <<converted>>

lateVars == <<mainVars, floatVars, avifVars, gamutVars>>

vars == <<containerVars, pixelVars, metaVars, iccVars, lateVars>>

NoImage == GenImage(0, 0, "RGB", 0, <<>>)

NoCall ==
    [op |-> "none", a |-> 0, b |-> 0, base |-> <<>>, p |-> <<>>, ret |-> <<>>,
     panicked |-> FALSE]

PixelIdle == image = NoImage /\ call = NoCall

NoPacket == [kind |-> "none", description |-> <<>>]

Pending == [kind |-> "pending"]

MetaIdle ==
    /\ xmp = NoPacket /\ parsed = Pending
    /\ computer = <<>> /\ boosted = <<>> /\ weight = <<>>

NoProfile == ProfileOf({}, {}, ChadSingular, "absent")

IccIdle == profile = NoProfile /\ icc_color_space = Pending

NoArgs == Args("None", FALSE, "None", FALSE)

MainIdle ==
    /\ args = NoArgs /\ main_pc = "idle"
    /\ reader = "none" /\ converter = "none" /\ output_file = "untouched"
    /\ exit_status = <<>> /\ failure = ""

NoFloatCall ==
    [op |-> "none", x |-> 0, y |-> 0, before |-> WithExtent(0, 0), kind |-> "Ok",
     pixel |-> <<>>]

FloatIdle == content = WithExtent(0, 0) /\ float_call = NoFloatCall

AvifIdle == avif_call = <<>>

GamutIdle == converted = <<>>

LateIdle == MainIdle /\ FloatIdle /\ AvifIdle /\ GamutIdle

ContainerStart ==
    /\ pc = "start"
    /\ header = <<>> /\ ifd_offset = <<>> /\ ifds = <<>>
    /\ tiff_result = "pending" /\ mpf_result = "pending" /\ mp_entries = <<>>
    /\ gain_map_jpeg_bytes = <<>> /\ result = "pending" /\ panic = ""

\* A JPEG with or without MPF bytes, and the bytes of the file it came from.
Init ==
    /\ \/ /\ desc \in MpfDescs
          /\ mpf_bytes = <<WriteTiff(desc)>>
          /\ original_bytes \in {OrigBytes(n) : n \in 0..MaxOrigLen}
       \/ /\ desc \in TiffDescs \cup OddDescs
          /\ mpf_bytes = <<WriteTiff(desc)>>
          /\ original_bytes = OrigBytes(2)
       \/ /\ desc \in ChainDescs
          /\ mpf_bytes = <<WriteTiff(desc)>>
          /\ original_bytes = OrigBytes(2)
       \/ /\ desc = GenDesc("II", 42, <<>>)
          /\ mpf_bytes = <<>>
          /\ original_bytes \in {OrigBytes(n) : n \in 0..MaxOrigLen}
    /\ ContainerStart
    /\ PixelIdle
    /\ MetaIdle
    /\ IccIdle
    /\ LateIdle

\* extract_gain_map_jpeg, jpeg.rs:104-106: self.mpf_bytes()?
ExtractBegin ==
    /\ pc = "start"
    /\ IF mpf_bytes = <<>>
       THEN /\ result' = "None"
            /\ pc' = "done"
       ELSE /\ result' = result
            /\ pc' = "header"
    /\ UNCHANGED <<desc, mpf_bytes, original_bytes, header, ifd_offset, ifds,
                   tiff_result, mpf_result, mp_entries, gain_map_jpeg_bytes, panic>>
    /\ UNCHANGED <<pixelVars, metaVars, iccVars, lateVars>>

\* Tiff::from_reader, tiff.rs:106-110: the header.
HeaderRead(h) ==
    IF h.kind = "Ok"
    THEN /\ header' = <<h.header>>
         /\ ifd_offset' = <<h.header.first_ifd_offset>>
         /\ tiff_result' = tiff_result
         /\ pc' = "ifd"
    ELSE /\ header' = header
         /\ ifd_offset' = ifd_offset
         /\ tiff_result' = h.err
         /\ pc' = "mpf"

TiffFromReaderHeader ==
    /\ pc = "header"
    /\ HeaderRead(TiffHeaderNew(mpf_bytes[1]))
    /\ UNCHANGED <<desc, mpf_bytes, original_bytes, ifds, mpf_result, mp_entries,
                   gain_map_jpeg_bytes, result, panic>>
    /\ UNCHANGED <<pixelVars, metaVars, iccVars, lateVars>>

\* Tiff::from_reader, tiff.rs:111-119: one pass of the while loop, and the
\* return when the IFD read has no successor.  The model follows a chain
\* through at most MaxIfds IFDs.
IfdRead(r) ==
    CASE r.kind = "Ok" ->
           /\ ifds' = Append(ifds, r.ifd)
           /\ ifd_offset' = r.ifd.next_ifd_offset
           /\ tiff_result' = IF r.ifd.next_ifd_offset = <<>> THEN "Ok" ELSE tiff_result
           /\ pc' = IF r.ifd.next_ifd_offset = <<>> THEN "mpf" ELSE "ifd"
           /\ panic' = panic
      [] r.kind = "Err" ->
           /\ tiff_result' = r.err
           /\ pc' = "mpf"
           /\ UNCHANGED <<ifds, ifd_offset, panic>>
      [] OTHER ->
           /\ tiff_result' = "Panic"
           /\ panic' = r.err
           /\ pc' = "aborted"
           /\ UNCHANGED <<ifds, ifd_offset>>

TiffFromReaderIfd ==
    /\ pc = "ifd"
    /\ Len(ifds) < MaxIfds
    /\ IfdRead(TiffIfdNew(mpf_bytes[1], Num(ifd_offset[1]),
                          header[1].endianness, header[1].version))
    /\ UNCHANGED <<desc, mpf_bytes, original_bytes, header, mpf_result, mp_entries,
                   gain_map_jpeg_bytes, result>>
    /\ UNCHANGED <<pixelVars, metaVars, iccVars, lateVars>>

\* MpfInfo::new_from_bytes, mpf.rs:28-78, from the return of Tiff::from_reader.
MpfRead(r) ==
    CASE r.kind = "Ok" ->
           /\ mpf_result' = "Ok"
           /\ mp_entries' = r.mp_entries
           /\ pc' = "extract"
           /\ panic' = panic
      [] r.kind = "Err" ->
           /\ mpf_result' = r.err
           /\ pc' = "extract"
           /\ UNCHANGED <<mp_entries, panic>>
      [] OTHER ->
           /\ mpf_result' = "Panic"
           /\ panic' = r.err
           /\ pc' = "aborted"
           /\ mp_entries' = mp_entries

MpfInfoNewFromBytes ==
    /\ pc = "mpf"
    /\ IF tiff_result # "Ok"
       THEN MpfRead(Err(tiff_result))
       ELSE MpfRead(MpfInfoNew(header[1], ifds))
    /\ UNCHANGED <<desc, mpf_bytes, original_bytes, header, ifd_offset, ifds,
                   tiff_result, gain_map_jpeg_bytes, result>>
    /\ UNCHANGED <<pixelVars, metaVars, iccVars, lateVars>>

\* extract_gain_map_jpeg, jpeg.rs:121-129: the slice and its decoding.
SliceDecoded(s, decodes) ==
    IF s.kind = "Ok"
    THEN /\ gain_map_jpeg_bytes' = <<s.bytes>>
         /\ result' = IF decodes THEN "Some" ELSE "None"
         /\ pc' = "done"
         /\ panic' = panic
    ELSE /\ result' = "Panic"
         /\ panic' = s.err
         /\ pc' = "aborted"
         /\ gain_map_jpeg_bytes' = gain_map_jpeg_bytes

\* extract_gain_map_jpeg, jpeg.rs:108-129, from the return of
\* MpfInfo::new_from_bytes.  UhdrJpeg::new_from_bytes decodes the slice or
\* fails on it: the JPEG decoder is outside this repository, and either may
\* happen.
ExtractGainMapJpeg ==
    /\ pc = "extract"
    /\ IF mpf_result # "Ok" \/ TooFewEntries(mp_entries)
       THEN /\ result' = "None"
            /\ pc' = "done"
            /\ UNCHANGED <<gain_map_jpeg_bytes, panic>>
       ELSE \E decodes \in BOOLEAN :
                SliceDecoded(GainMapSlice(original_bytes, GainMapOffset(mp_entries)),
                             decodes)
    /\ UNCHANGED <<desc, mpf_bytes, original_bytes, header, ifd_offset, ifds,
                   tiff_result, mpf_result, mp_entries>>
    /\ UNCHANGED <<pixelVars, metaVars, iccVars, lateVars>>

Next ==
    \/ ExtractBegin
    \/ TiffFromReaderHeader
    \/ TiffFromReaderIfd
    \/ MpfInfoNewFromBytes
    \/ ExtractGainMapJpeg

Spec == Init /\ [][Next]_vars

\* ------------------------------------------------------------ pixel reads
ContainerIdle ==
    /\ desc = GenDesc("II", 42, <<>>)
    /\ mpf_bytes = <<>> /\ original_bytes = <<>>
    /\ pc = "idle"
    /\ header = <<>> /\ ifd_offset = <<>> /\ ifds = <<>>
    /\ tiff_result = "pending" /\ mpf_result = "pending" /\ mp_entries = <<>>
    /\ gain_map_jpeg_bytes = <<>> /\ result = "pending" /\ panic = ""

InitPixel ==
    /\ image \in Images
    /\ call = NoCall
    /\ ContainerIdle
    /\ MetaIdle
    /\ IccIdle
    /\ LateIdle

FetchOf(x, y, r) ==
    [op |-> "fetch_pixel", a |-> x, b |-> y, base |-> <<>>, p |-> <<>>,
     ret |-> IF r.kind = "Ok" THEN <<r.rgb>> ELSE <<>>,
     panicked |-> r.kind = "Panic"]

\* fetch_pixel(x, y) at a coordinate of the image
FetchPixelCall ==
    /\ call.op = "none"
    /\ \E x \in 0..(image.width - 1), y \in 0..(image.height - 1) :
         call' = FetchOf(x, y, FetchPixel(image, x, y))
    /\ UNCHANGED image
    /\ UNCHANGED <<containerVars, metaVars, iccVars, lateVars>>

LinearFetchCallOf(x, y, r) ==
    [op |-> "fetch_pixel_linear", a |-> x, b |-> y, base |-> <<>>,
     p |-> IF r.kind = "Ok" THEN <<r.rgb>> ELSE <<>>,
     ret |-> IF r.kind = "Ok" THEN <<r.linear>> ELSE <<>>,
     panicked |-> r.kind = "Panic"]

\* fetch_pixel_linear(x, y) at a coordinate of the image
FetchPixelLinearCall ==
    /\ call.op = "none"
    /\ \E x \in 0..(image.width - 1), y \in 0..(image.height - 1) :
         call' = LinearFetchCallOf(x, y, FetchPixelLinear(image, x, y))
    /\ UNCHANGED image
    /\ UNCHANGED <<containerVars, metaVars, iccVars, lateVars>>

\* sample_bilinear(u, v) with u and v from -1/width to 1 + 1/width, in
\* steps of 1/(Den * width)
SampleBilinearCall ==
    /\ call.op = "none"
    /\ \E xn \in (0 - Den)..((image.width + 1) * Den),
          yn \in (0 - Den)..((image.height + 1) * Den) :
         call' = SampleBilinear(image, xn, yn)
    /\ UNCHANGED image
    /\ UNCHANGED <<containerVars, metaVars, iccVars, lateVars>>

NextPixel ==
    \/ FetchPixelCall
    \/ FetchPixelLinearCall
    \/ SampleBilinearCall

SpecPixel == InitPixel /\ [][NextPixel]_vars

\* ------------------------------------------------------ gain-map metadata
InitXmp ==
    /\ xmp \in Packets
    /\ parsed = Pending /\ computer = <<>> /\ boosted = <<>> /\ weight = <<>>
    /\ ContainerIdle
    /\ PixelIdle
    /\ IccIdle
    /\ LateIdle

\* GainMapMetadata::new_from_xmp_bytes(xmp_bytes)
NewFromXmpBytesCall ==
    /\ parsed.kind = "pending"
    /\ parsed' = NewFromXmpBytes(xmp)
    /\ UNCHANGED <<xmp, computer, boosted, weight>>
    /\ UNCHANGED <<containerVars, pixelVars, iccVars, lateVars>>

\* metadata.compute_weight_factor(log2_max_display_boost)
ComputeWeightFactorCall ==
    /\ parsed.kind = "Some"
    /\ weight = <<>>
    /\ \E log2_max_display_boost \in Boosts :
           weight' = <<[log2_max_display_boost |-> log2_max_display_boost,
                        ret |-> ComputeWeightFactor(parsed.metadata,
                                                    log2_max_display_boost)]>>
    /\ UNCHANGED <<xmp, parsed, computer, boosted>>
    /\ UNCHANGED <<containerVars, pixelVars, iccVars, lateVars>>

NextXmp ==
    \/ NewFromXmpBytesCall
    \/ ComputeWeightFactorCall

SpecXmp == InitXmp /\ [][NextXmp]_vars

\* ---------------------------------------------------------- boost computer
InitBoost ==
    /\ xmp = NoPacket
    /\ parsed \in {[kind |-> "Some", metadata |-> m] : m \in Metadatas}
    /\ computer = <<>> /\ boosted = <<>> /\ weight = <<>>
    /\ ContainerIdle
    /\ PixelIdle
    /\ IccIdle
    /\ LateIdle

\* UhdrBoostComputer::new(&gain_map_metadata, log2_max_display_boost)
UhdrBoostComputerNewCall ==
    /\ parsed.kind = "Some"
    /\ computer = <<>>
    /\ \E log2_max_display_boost \in Boosts :
           computer' = <<UhdrBoostComputerNew(parsed.metadata, log2_max_display_boost)>>
    /\ UNCHANGED <<xmp, parsed, boosted, weight>>
    /\ UNCHANGED <<containerVars, pixelVars, iccVars, lateVars>>

\* computer.compute_boosted(sdr, recovery)
ComputeBoostedCall ==
    /\ computer # <<>>
    /\ boosted = <<>>
    /\ \E sdr \in SdrPixels, recovery \in Recoveries :
           boosted' = <<[sdr |-> sdr, recovery |-> recovery,
                         ret |-> ComputeBoosted(computer[1], sdr, recovery)]>>
    /\ UNCHANGED <<xmp, parsed, computer, weight>>
    /\ UNCHANGED <<containerVars, pixelVars, iccVars, lateVars>>

NextBoost ==
    \/ UhdrBoostComputerNewCall
    \/ ComputeBoostedCall

SpecBoost == InitBoost /\ [][NextBoost]_vars

\* -------------------------------------------------------------- ICC profile
InitIcc ==
    /\ profile \in Profiles
    /\ icc_color_space = Pending
    /\ ContainerIdle
    /\ PixelIdle
    /\ MetaIdle
    /\ LateIdle

\* IccColorSpace::from_icc_profile(icc_profile)
FromIccProfileCall ==
    /\ icc_color_space.kind = "pending"
    /\ icc_color_space' = IccColorSpaceFromIccProfile(profile)
    /\ UNCHANGED profile
    /\ UNCHANGED <<containerVars, pixelVars, metaVars, lateVars>>

NextIcc ==
    \/ FromIccProfileCall

SpecIcc == InitIcc /\ [][NextIcc]_vars

\* --------------------------------------------------------------------- main
InitMain ==
    /\ args \in ArgsSet
    /\ main_pc = "input"
    /\ reader = "none" /\ converter = "none" /\ output_file = "untouched"
    /\ exit_status = <<>> /\ failure = ""
    /\ ContainerIdle
    /\ PixelIdle
    /\ MetaIdle
    /\ IccIdle
    /\ FloatIdle
    /\ AvifIdle
    /\ GamutIdle

\* A step of main.rs:53-83: on Ok main goes on to its next statement, or
\* returns Ok(()) after the last; on an error main returns Err(message), and a
\* panic unwinds out of main.
MainStep(r) ==
    /\ main_pc' = IF r.kind = "Ok" THEN MainNext(main_pc) ELSE "exited"
    /\ exit_status' = IF r.kind = "Ok" /\ MainNext(main_pc) # "exited"
                      THEN <<>>
                      ELSE <<ExitStatus(r.kind)>>
    /\ failure' = IF r.kind = "Ok" THEN failure ELSE r.v

\* The value a `let` of main binds: the Ok value, and nothing on an error.
Bound(r, unbound) == IF r.kind = "Ok" THEN r.v ELSE unbound

\* main.rs:53-61
MainOpenInput ==
    /\ main_pc = "input"
    /\ \E opens \in BOOLEAN :
           /\ reader' = Bound(OpenReader(args, opens), reader)
           /\ MainStep(OpenReader(args, opens))
    /\ UNCHANGED <<args, converter, output_file>>
    /\ UNCHANGED <<containerVars, pixelVars, metaVars, iccVars, floatVars, avifVars, gamutVars>>

\* main.rs:65-66
MainConverterNew ==
    /\ main_pc = "converter"
    /\ \E constructs \in BOOLEAN :
           /\ converter' = Bound(UhdrConverterNew(constructs), converter)
           /\ MainStep(UhdrConverterNew(constructs))
    /\ UNCHANGED <<args, reader, output_file>>
    /\ UNCHANGED <<containerVars, pixelVars, metaVars, iccVars, floatVars, avifVars, gamutVars>>

\* main.rs:68-76
MainOpenOutput ==
    /\ main_pc = "output"
    /\ \E creates \in BOOLEAN :
           /\ output_file' = IF FileCreated(args, creates) THEN "created" ELSE output_file
           /\ MainStep(OpenWriter(args, creates))
    /\ UNCHANGED <<args, reader, converter>>
    /\ UNCHANGED <<containerVars, pixelVars, metaVars, iccVars, floatVars, avifVars, gamutVars>>

\* main.rs:80-83
MainConvertToAvif ==
    /\ main_pc = "convert"
    /\ \E converts \in BOOLEAN, encoded \in BOOLEAN, written \in BOOLEAN :
           MainStep(ConvertToAvif(converts, encoded, written))
    /\ UNCHANGED <<args, reader, converter, output_file>>
    /\ UNCHANGED <<containerVars, pixelVars, metaVars, iccVars, floatVars, avifVars, gamutVars>>

NextMain ==
    \/ MainOpenInput
    \/ MainConverterNew
    \/ MainOpenOutput
    \/ MainConvertToAvif

SpecMain == InitMain /\ [][NextMain]_vars

\* ------------------------------------------------------- FloatImageContent
InitFloat ==
    /\ content \in {WithExtent(w, h) : w \in 0..MaxDim, h \in 0..MaxDim}
    /\ float_call = NoFloatCall
    /\ ContainerIdle
    /\ PixelIdle
    /\ MetaIdle
    /\ IccIdle
    /\ MainIdle
    /\ AvifIdle
    /\ GamutIdle

\* The call, the image it found and what it returned; a panic ends the run.
FloatCallOf(op, x, y, r) ==
    /\ float_call' = [op |-> op, x |-> x, y |-> y, before |-> content,
                      kind |-> r.kind, pixel |-> r.pixel]
    /\ content' = r.content

\* content.get_at(x, y)
GetAtCall ==
    /\ float_call.kind = "Ok"
    /\ \E x \in 0..MaxDim, y \in 0..MaxDim :
           FloatCallOf("get_at", x, y, GetAt(content, x, y))
    /\ UNCHANGED <<containerVars, pixelVars, metaVars, iccVars, mainVars, avifVars, gamutVars>>

\* content.set_at(x, y, pixel)
SetAtCall ==
    /\ float_call.kind = "Ok"
    /\ \E x \in 0..MaxDim, y \in 0..MaxDim :
           FloatCallOf("set_at", x, y, SetAt(content, x, y, FloatPixelWritten))
    /\ UNCHANGED <<containerVars, pixelVars, metaVars, iccVars, mainVars, avifVars, gamutVars>>

NextFloat ==
    \/ GetAtCall
    \/ SetAtCall

SpecFloat == InitFloat /\ [][NextFloat]_vars

\* ---------------------------------------------------------------- AVIF sink
InitAvif ==
    /\ content \in LinearImages
    /\ float_call = NoFloatCall
    /\ avif_call = <<>>
    /\ ContainerIdle
    /\ PixelIdle
    /\ MetaIdle
    /\ IccIdle
    /\ MainIdle
    /\ GamutIdle

\* write_hdr10_linear_pixels_to_avif(writer, width, height, &content) with
\* the extent of the image
WriteHdr10LinearPixelsToAvifCall ==
    /\ avif_call = <<>>
    /\ avif_call' = <<WriteHdr10LinearPixelsToAvif(content.width, content.height, content)>>
    /\ UNCHANGED <<containerVars, pixelVars, metaVars, iccVars, mainVars, floatVars, gamutVars>>

NextAvif ==
    \/ WriteHdr10LinearPixelsToAvifCall

SpecAvif == InitAvif /\ [][NextAvif]_vars

\* ------------------------------------------------------ ColorGamut::convert
InitGamut ==
    /\ profile \in GamutProfiles
    /\ icc_color_space = Pending
    /\ converted = <<>>
    /\ ContainerIdle
    /\ PixelIdle
    /\ MetaIdle
    /\ MainIdle
    /\ FloatIdle
    /\ AvifIdle

\* ColorGamut::convert(&value, &gamut, &gamut) for the gamut that
\* ColorGamut::from_icc_profile built from the profile
ConvertCall ==
    /\ converted = <<>>
    /\ ColorGamutFromIccProfile(profile).kind = "Some"
    /\ \E value \in RgbValues :
           converted' = <<[value |-> value,
                           out |-> Convert(value, ColorGamutFromIccProfile(profile),
                                           ColorGamutFromIccProfile(profile))]>>
    /\ UNCHANGED <<containerVars, pixelVars, metaVars, iccVars, mainVars, floatVars, avifVars>>

NextGamut ==
    \/ ConvertCall

SpecGamut == InitGamut /\ [][NextGamut]_vars

\* ---------------------------------------------------------------- claims
\* A stream with a valid header, one IFD with the entries its count
\* announces (at least one), and no second IFD.
WellFormed(d) ==
    /\ d.family = "tiff"
    /\ d.magic \in {"II", "MM"} /\ d.version \in {42, 43}
    /\ d.first = 8 /\ d.next = 0
    /\ d.entry_count = Len(d.entries) /\ Len(d.entries) >= 1

Ended == pc \in {"done", "aborted"}

\* C1: a stream whose first IFD entry has a type code outside 1..12 makes
\* Tiff::from_reader return InvalidData: it returns no Tiff and does not
\* abort.
C1_UnknownTypeIsInvalidData ==
    (/\ WellFormed(desc)
     /\ desc.entries[1].code \notin 1..12
     /\ tiff_result # "pending")
        => (tiff_result = "InvalidData" /\ panic = "")

\* The value an element written as e reads back as: a byte, a signed byte,
\* the two parts of a rational, or the digits of a number.
ReadsBackAs(code, e) ==
    CASE code \in {1, 2, 7} -> e[1][1]
      [] code = 6 -> IF e[1][1] >= 128 THEN e[1][1] - 256 ELSE e[1][1]
      [] code \in {5, 10} -> <<e[1], e[2]>>
      [] OTHER -> e[1]

ValueWritten(e) == [i \in 1..e.count |-> ReadsBackAs(e.code, e.elems[i])]

\* C2: of a stream whose entries all have an implemented type, every entry
\* reads back with its count of elements, each equal to the element written
\* (in the slot when the value fits, at the offset in the slot otherwise),
\* in either byte order.
C2_ValuesReadBack ==
    (/\ WellFormed(desc)
     /\ \A k \in 1..Len(desc.entries) : desc.entries[k].code \in 1..12
     /\ tiff_result # "pending")
        => /\ tiff_result = "Ok"
           /\ Len(ifds) = 1
           /\ Len(ifds[1].entries) = Len(desc.entries)
           /\ \A k \in 1..Len(desc.entries) :
                /\ Len(ifds[1].entries[k].field_value.vals) = desc.entries[k].count
                /\ ifds[1].entries[k].field_value.vals = ValueWritten(desc.entries[k])

\* C3: a payload MpfInfo::new_from_bytes accepts, written with N in 0xB001
\* and N records in 0xB002, yields exactly N entries in file order, entry i
\* with the attribute, size, data offset and dependent entry numbers of
\* record i, in the byte order of the header.
C3_EntriesAreTheRecords ==
    (desc.family = "mpf" /\ mpf_result = "Ok")
        => /\ Len(mp_entries) = desc.images
           /\ \A i \in 1..desc.images : mp_entries[i] = desc.records[i]

C3_TwoBigEndianRecords ==
    /\ desc.family = "mpf" /\ mpf_result = "Ok"
    /\ header[1].endianness = "BigEndian"
    /\ Len(mp_entries) = 2
    /\ mp_entries[2].individual_image_size # mp_entries[2].individual_image_data_offset

\* C4: every malformed payload (a missing 0xB000, 0xB001 or 0xB002, a
\* 0xB000 of another type or with other bytes, a 0xB001 that is no LONG, a
\* 0xB002 whose length is not 16 * N, an invalid magic) is reported by
\* MpfInfo::new_from_bytes as an error value: no abort and no MpfInfo.
C4_MalformedIsAnError ==
    (/\ \/ desc.family = "mpf" /\ desc.variant # "ok"
        \/ desc.magic \notin {"II", "MM"}
     /\ mpf_result # "pending")
        => (mpf_result \in {"InvalidData", "UnexpectedEof"} /\ panic = "")

\* C5: with at least 2 entries, the bytes handed to the JPEG decoder are
\* original_bytes[s .. len-1] with s the size written in the first record,
\* whatever the data offsets and the later sizes are.
C5_SliceFromFirstSize ==
    (desc.family = "mpf" /\ mpf_result = "Ok" /\ Len(mp_entries) >= 2 /\ pc = "done")
        => gain_map_jpeg_bytes =
             <<SubSeq(original_bytes,
                      Num(desc.records[1].individual_image_size) + 1,
                      Len(original_bytes) - 1)>>

C5_SliceOfOneByte ==
    /\ pc = "done" /\ result = "Some"
    /\ Len(original_bytes) = 4
    /\ gain_map_jpeg_bytes = <<SubSeq(original_bytes, 3, 3)>>
    /\ Num(desc.records[2].individual_image_data_offset) # 2
    /\ Num(desc.records[2].individual_image_size) # 2

\* The inputs from which no gain-map JPEG can be extracted, decided from
\* what the parsers returned; a slice the decoder rejects is the fifth.
Unextractable ==
    \/ mpf_bytes = <<>>
    \/ tiff_result \notin {"pending", "Ok"}
    \/ mpf_result \notin {"pending", "Ok"}
    \/ /\ mpf_result = "Ok" /\ Len(mp_entries) >= 2
       /\ \/ Len(original_bytes) = 0
          \/ Num(mp_entries[1].individual_image_size) > Len(original_bytes) - 1

\* C6: extract_gain_map_jpeg returns None, without aborting, whenever the
\* gain-map JPEG cannot be extracted: no MPF bytes, MPF bytes that do not
\* parse or have the wrong shape, a first size beyond len-1, an empty
\* original_bytes, a slice that does not decode.
C6_UnextractableIsNone ==
    /\ (Ended /\ Unextractable) => (result = "None" /\ panic = "")
    /\ Ended => result \in {"None", "Some"}

\* C7: with fewer than 2 parsed entries extract_gain_map_jpeg returns None
\* and no range of original_bytes has been sliced or decoded.
C7_FewerThanTwoIsNone ==
    (mpf_result = "Ok" /\ Len(mp_entries) < 2 /\ pc # "extract")
        => (pc = "done" /\ result = "None" /\ gain_map_jpeg_bytes = <<>> /\ panic = "")

C7_OneEntryEmptyOriginal ==
    /\ pc = "done" /\ mpf_result = "Ok"
    /\ Len(mp_entries) = 1
    /\ Len(original_bytes) = 0
    /\ result = "None"

\* The 8-bit samples of the pixel at (x, y), for a coordinate of the image.
Texel(img, x, y) ==
    IF img.jpeg_color_space = "RGB"
    THEN <<img.pixels[(y * img.width + x) * 3 + 1],
           img.pixels[(y * img.width + x) * 3 + 2],
           img.pixels[(y * img.width + x) * 3 + 3]>>
    ELSE <<img.pixels[y * img.width + x + 1], img.pixels[y * img.width + x + 1],
           img.pixels[y * img.width + x + 1]>>

Inside(img, x, y) == x >= 0 /\ x < img.width /\ y >= 0 /\ y < img.height

\* sample_bilinear was called at the centre of a texel of the image.
AtTexelCentre ==
    /\ call.op = "sample_bilinear"
    /\ call.a >= 0 /\ call.a < image.width * Den /\ call.a % Den = HalfDen
    /\ call.b >= 0 /\ call.b < image.height * Den /\ call.b % Den = HalfDen

\* C8: sample_bilinear at the centre of texel (X, Y) returns the linearized
\* value of that texel, in the last column and row as elsewhere.
C8_CentreIsTheTexel ==
    AtTexelCentre
        => \A c \in 1..3 :
             call.ret[1][c] =
               Den * Den * ToLinear(image, Texel(image, call.a \div Den, call.b \div Den))[c]

\* The neighbour of sample_bilinear's base at an offset, as the claim has
\* it: the pixel there when it is inside the image, zero otherwise.
NeighbourAt(img, x, y) ==
    IF Inside(img, x, y) THEN ToLinear(img, Texel(img, x, y)) ELSE <<0, 0, 0>>

\* C9: the four neighbours of sample_bilinear are the pixels at
\* (base_x + dx, base_y + dy) when inside the image and [0, 0, 0] when
\* base_x + dx = width or base_y + dy = height; no neighbour comes from
\* another coordinate.  Stated for u and v in [0, 1].
C9_NeighboursInsideOrZero ==
    (/\ call.op = "sample_bilinear"
     /\ call.a >= 0 /\ call.a <= image.width * Den
     /\ call.b >= 0 /\ call.b <= image.height * Den)
        => /\ call.p[1] = NeighbourAt(image, call.base[1], call.base[2])
           /\ call.p[2] = NeighbourAt(image, call.base[1], call.base[2] + 1)
           /\ call.p[3] = NeighbourAt(image, call.base[1] + 1, call.base[2])
           /\ call.p[4] = NeighbourAt(image, call.base[1] + 1, call.base[2] + 1)

\* C10: fetch_pixel at a coordinate of the image returns the samples of
\* that pixel over 255: three bytes of an RGB image, the one byte of a Luma
\* image in R, G and B.
C10_FetchIsTheTexel ==
    call.op = "fetch_pixel"
        => (~call.panicked /\ call.ret = <<Texel(image, call.a, call.b)>>)

\* The field of the record that an XMP name is read into.
FieldOf(metadata, name) ==
    CASE name = "GainMapMin" -> metadata.gain_map_min
      [] name = "GainMapMax" -> metadata.gain_map_max
      [] name = "Gamma" -> metadata.gamma
      [] name = "OffsetSDR" -> metadata.offset_sdr
      [] name = "OffsetHDR" -> metadata.offset_hdr
      [] name = "BaseRenditionIsHDR" -> metadata.base_rendition_is_hdr
      [] name = "HDRCapacityMin" -> metadata.hdr_capacity_min

\* The scalars the Description gives for a name: as an attribute, or as a
\* child element whose content is a scalar text.
ScalarsGiven(node, name) ==
    {ParseF32(node.attrs[i].value)[1] :
        i \in {j \in 1..Len(node.attrs) :
                 /\ node.attrs[j].name = name
                 /\ ParseF32(node.attrs[j].value) # <<>>}}
    \cup {ParseF32(node.children[i].text[1])[1] :
        i \in {j \in 1..Len(node.children) :
                 /\ node.children[j].name = name
                 /\ node.children[j].seq = <<>>
                 /\ node.children[j].text # <<>>
                 /\ ParseF32(node.children[j].text[1]) # <<>>}}

\* C11: for each of GainMapMin, GainMapMax, Gamma, OffsetSDR and OffsetHDR, a
\* single scalar is replicated into all three channels, whether it is given
\* as an attribute or as a child element containing the scalar as text.
C11_ScalarIsReplicated ==
    parsed.kind = "Some" =>
        \A name \in TripleFields :
            \A v \in ScalarsGiven(xmp.description[1], name) :
                FieldOf(parsed.metadata, name) = <<v, v, v>>

\* The attribute form of C11 is replicated.
C11_AttributeIsReplicated ==
    /\ parsed.kind = "Some"
    /\ FindAttr(xmp.description[1], "GainMapMax") # <<>>
    /\ ScalarsGiven(xmp.description[1], "GainMapMax") = {2 * Unit}
    /\ parsed.metadata.gain_map_max = <<2 * Unit, 2 * Unit, 2 * Unit>>

\* The value a field holds when the Description does not give it.
DefaultOf(name) ==
    CASE name = "BaseRenditionIsHDR" -> FALSE
      [] name = "GainMapMin" -> <<0, 0, 0>>
      [] name = "GainMapMax" -> <<0, 0, 0>>
      [] name = "Gamma" -> <<Unit, Unit, Unit>>
      [] name = "OffsetSDR" -> <<1, 1, 1>>
      [] name = "OffsetHDR" -> <<1, 1, 1>>
      [] name = "HDRCapacityMin" -> 0

OptionalFields == TripleFields \cup {"BaseRenditionIsHDR", "HDRCapacityMin"}

Absent(node, name) ==
    /\ \A i \in 1..Len(node.attrs) : node.attrs[i].name # name
    /\ \A i \in 1..Len(node.children) : node.children[i].name # name

Ramp(metadata, L, w) ==
    /\ ~FLess(F32Of(metadata.hdr_capacity_min), L) => w = Zero
    /\ ~FLess(L, F32Of(metadata.hdr_capacity_max)) => w = One
    /\ \A L2 \in Boosts :
           (/\ ~FLess(L, F32Of(metadata.hdr_capacity_min))
            /\ FLess(L, L2)
            /\ ~FLess(F32Of(metadata.hdr_capacity_max), L2))
               => FLess(w, ComputeWeightFactor(metadata, L2))

NotHdr(metadata) == [metadata EXCEPT !.base_rendition_is_hdr = FALSE]

Present(tag) == tag.t # "absent"

\* The tags that are present are read as the variant of their signature.
AllReadable(icc_profile) ==
    /\ \A t \in {icc_profile.desc.t, icc_profile.cprt.t} : t \in {"absent", "mlu"}
    /\ \A t \in {icc_profile.chad.t, icc_profile.chrm.t} : t \in {"absent", "triple"}
    /\ \A t \in {icc_profile.wtpt.t, icc_profile.rXYZ.t, icc_profile.gXYZ.t,
                 icc_profile.bXYZ.t} : t \in {"absent", "xyz"}
    /\ \A t \in {icc_profile.rTRC.t, icc_profile.gTRC.t, icc_profile.bTRC.t} :
           t \in {"absent", "curve"}

ChadIsInvertibleIfPresent(icc_profile) ==
    Present(icc_profile.chad) => Det(ToD50(icc_profile.chad.v)) # 0

\* C14 as stated: over every combination of presence and absence of wtpt,
\* chad, chrm, rXYZ, gXYZ, bXYZ, rTRC, gTRC and bTRC, from_icc_profile returns
\* Some if and only if wtpt is present and chad, when present, is an
\* invertible 3x3 matrix.
C14_SomeIffWhitePoint ==
    (icc_color_space.kind # "pending" /\ AllReadable(profile)) =>
        (icc_color_space.kind = "Some"
            <=> (Present(profile.wtpt) /\ ChadIsInvertibleIfPresent(profile)))

HasPrimaries(icc_profile) ==
    \/ Present(icc_profile.chrm)
    \/ Present(icc_profile.rXYZ) /\ Present(icc_profile.gXYZ) /\ Present(icc_profile.bXYZ)

\* The channels of an evaluated triple whose tone curve tag is absent are
\* the normalised inputs.
AbsentCurvesAreIdentity(icc_profile, tc, rgb) ==
    /\ icc_profile.rTRC.t = "absent" => Evaluate(tc, rgb)[1] = Unorm(rgb[1])
    /\ icc_profile.gTRC.t = "absent" => Evaluate(tc, rgb)[2] = Unorm(rgb[2])
    /\ icc_profile.bTRC.t = "absent" => Evaluate(tc, rgb)[3] = Unorm(rgb[3])

\* C14, amended: over every combination of presence and absence of the nine
\* tags, from_icc_profile returns Some if and only if wtpt is present, chad,
\* when present, is an invertible 3x3 matrix, and the primaries can be read:
\* chrm is present or rXYZ, gXYZ and bXYZ all are.  An absent tone curve
\* leaves its channel as the identity and never causes None.
C14_SomeIffWhitePointAndPrimaries ==
    (icc_color_space.kind # "pending" /\ AllReadable(profile)) =>
        /\ icc_color_space.kind = "Some"
               <=> /\ Present(profile.wtpt)
                   /\ ChadIsInvertibleIfPresent(profile)
                   /\ HasPrimaries(profile)
        /\ icc_color_space.kind # "Panic"
        /\ icc_color_space.kind = "Some" =>
               \A b \in {0, 85, 255} :
                   AbsentCurvesAreIdentity(profile,
                       icc_color_space.transfer_characteristics, <<b, b, b>>)

\* A profile with a white point and colorants but no tone curve at all.
C14_NoCurveAtAll ==
    /\ icc_color_space.kind = "Some"
    /\ ~Present(profile.chrm) /\ ~Present(profile.chad)
    /\ ~Present(profile.rTRC) /\ ~Present(profile.gTRC) /\ ~Present(profile.bTRC)
    /\ icc_color_space.transfer_characteristics = <<"None", "None", "None">>

\* C15: sample_bilinear(u, v) returns None when u or v lies outside [0, 1]
\* and Some only for coordinates inside it.
C15_OutsideIsNone ==
    call.op = "sample_bilinear" =>
        (call.ret # <<>>
            <=> (/\ call.a >= 0 /\ call.a <= image.width * Den
                 /\ call.b >= 0 /\ call.b <= image.height * Den))

\* What C16 names: an invalid magic, a version below 42 or neither 42 nor
\* 43, an IFD of the chain that declares an entry count of 0.
Rejectable(d) ==
    \/ d.magic \notin {"II", "MM"}
    \/ d.version < 42
    \/ d.version \notin {42, 43}
    \/ d.entry_count = 0
    \/ \E k \in 1..Len(d.later) : d.later[k].entry_count = 0

\* C16: Tiff::from_reader returns InvalidData, and no Tiff, whenever the
\* first two bytes are neither 0x4949 nor 0x4D4D, the version is below 42 or
\* neither 42 nor 43, or any IFD in the chain declares an entry count of 0.
C16_RejectedAsInvalidData ==
    (/\ desc.family \in {"tiff", "chain"}
     /\ Rejectable(desc)
     /\ tiff_result # "pending")
        => tiff_result = "InvalidData"

\* The entries of a returned IFD are those of a written one, in file order.
SameEntries(ifd, entry_count, entries) ==
    /\ Len(ifd.entries) = entry_count
    /\ Len(entries) = entry_count
    /\ \A k \in 1..entry_count :
           /\ ifd.entries[k].tag = entries[k].tag
           /\ Num(ifd.entries[k].count) = entries[k].count

\* C17: on success Tiff::from_reader returns the IFDs in chain order: the
\* first read at header.first_ifd_offset, each following one at the next-IFD
\* offset stored after the entries of the one before it, the list ending
\* with the first IFD whose next-IFD offset is 0; each returned IFD holds
\* exactly as many entries as its entry count, in file order.
C17_IfdsInChainOrder ==
    (desc.family = "chain" /\ tiff_result = "Ok") =>
        /\ Len(ifds) = 1 + Len(desc.later)
        /\ SameEntries(ifds[1], desc.entry_count, desc.entries)
        /\ \A k \in 1..Len(desc.later) :
               SameEntries(ifds[k + 1], desc.later[k].entry_count,
                           desc.later[k].entries)

\* C18: in every MpfInfo returned by MpfInfo::new_from_bytes the image data
\* offsets of the entries are monotonically increasing in entry order (here
\* in the weak sense: no entry's offset is below that of the entry before).
C18_OffsetsIncrease ==
    mpf_result = "Ok" =>
        \A i \in 1..(Len(mp_entries) - 1) :
            Num(mp_entries[i].individual_image_data_offset)
                <= Num(mp_entries[i + 1].individual_image_data_offset)

\* The EOTF of C19 on the bytes of a sample: with an IccColorSpace each
\* channel through its own tone curve, a channel without one unchanged;
\* without an IccColorSpace every channel to the power 2.2.
Eotf(img, rgb) ==
    [c \in 1..3 |->
        IF img.icc_color_space = <<>> THEN Pow22Table[(rgb[c] \div 17) + 1]
        ELSE IF img.icc_color_space[1][c] = "None" THEN (rgb[c] * Scale) \div 255
        ELSE IF img.icc_color_space[1][c] = "srgb" THEN SrgbTable[(rgb[c] \div 17) + 1]
        ELSE Gamma18Table[(rgb[c] \div 17) + 1]]

\* A neighbour of sample_bilinear is the EOTF of the bytes fetched for it,
\* or zero when there are none.
NeighbourIsEotf(img, linear, fetched) ==
    linear = IF fetched = <<>> THEN <<0, 0, 0>> ELSE Eotf(img, fetched[1])

\* C19: linearization selects the EOTF per image: with an IccColorSpace
\* each channel goes through its own tone curve and a channel without a
\* curve is unchanged, without one every channel is raised to the power 2.2;
\* fetch_pixel_linear and the neighbour fetches of sample_bilinear apply this
\* rule to the normalized 8-bit sample they fetched.
C19_EotfPerImage ==
    /\ (call.op = "fetch_pixel_linear" /\ ~call.panicked)
           => call.ret = <<Eotf(image, call.p[1])>>
    /\ call.op = "sample_bilinear"
           => /\ NeighbourIsEotf(image, call.p[1],
                     GetPixelAsRgb888(image, call.base[1], call.base[2]))
              /\ NeighbourIsEotf(image, call.p[2],
                     GetPixelAsRgb888(image, call.base[1], call.base[2] + 1))
              /\ NeighbourIsEotf(image, call.p[3],
                     GetPixelAsRgb888(image, call.base[1] + 1, call.base[2]))
              /\ NeighbourIsEotf(image, call.p[4],
                     GetPixelAsRgb888(image, call.base[1] + 1, call.base[2] + 1))

\* fetch_pixel_linear on an image whose green channel has no tone curve.
C19_GreenWithoutCurve ==
    /\ call.op = "fetch_pixel_linear" /\ ~call.panicked
    /\ image.icc_color_space # <<>>
    /\ image.icc_color_space[1][2] = "None"
    /\ call.p[1][1] \notin {0, 255} /\ call.p[1][2] \notin {0, 255}
    /\ call.ret[1][2] = (call.p[1][2] * Scale) \div 255
    /\ call.ret[1][1] # (call.p[1][1] * Scale) \div 255

\* compute_boosted was called on a computer with gain_map_min =
\* gain_map_max = 0 and offset_sdr = offset_hdr = 0.
NoGainNoOffset ==
    /\ boosted # <<>>
    /\ computer[1].gain_map_min = <<Zero, Zero, Zero>>
    /\ computer[1].gain_map_max = <<Zero, Zero, Zero>>
    /\ computer[1].offset_sdr = <<Zero, Zero, Zero>>
    /\ computer[1].offset_hdr = <<Zero, Zero, Zero>>

\* C20 as stated: with gain_map_min = gain_map_max = 0 and offset_sdr =
\* offset_hdr = 0, compute_boosted(sdr, g) equals sdr for every sdr, every g
\* in [0,1]^3, every gamma and every weight factor.
C20_IdentityForEveryGamma ==
    NoGainNoOffset => boosted[1].ret = boosted[1].sdr

\* C20, amended: with gain_map_min = gain_map_max = 0 and offset_sdr =
\* offset_hdr = 0, compute_boosted(sdr, g) equals sdr for every sdr, every g
\* in [0,1]^3, every gamma above 0 and every weight factor that is a number;
\* with a weight factor that is NaN the result is NaN.
C20_IdentityForPositiveGamma ==
    NoGainNoOffset =>
        /\ (/\ \A c \in 1..3 : parsed.metadata.gamma[c] > 0
            /\ computer[1].weight_factor.k # "nan")
               => boosted[1].ret = boosted[1].sdr
        /\ computer[1].weight_factor.k = "nan"
               => boosted[1].ret = <<NaN, NaN, NaN>>

\* The identity at a gamma of 2, a weight factor of 1 and a sample of 1/4.
C20_GammaTwoFullWeight ==
    /\ NoGainNoOffset
    /\ parsed.metadata.gamma = <<2 * Unit, 2 * Unit, 2 * Unit>>
    /\ computer[1].weight_factor = One
    /\ boosted[1].recovery = <<Zero, Fin(1, 4), One>>
    /\ boosted[1].sdr = <<Zero, Fin(1, 2), One>>
    /\ boosted[1].ret = <<Zero, Fin(1, 2), One>>

\* C21: main exits with status 0 when the conversion succeeds and with
\* status 1 on every error: no input source, no output sink, an input that
\* cannot be opened, a converter that cannot be constructed, an output file
\* that cannot be created, and a failure of the conversion or the encoder.
C21_ExitZeroOrOne ==
    main_pc = "exited" => exit_status = <<IF failure = "" THEN 0 ELSE 1>>

C21_ErrorsReturnedExitOne ==
    /\ main_pc = "exited"
    /\ failure = "Failed to create output file"
    /\ exit_status = <<1>>

\* The errors that end main before it reaches the output.
EarlyFailures ==
    {"No input file specified and stdin not enabled",
     "Failed to open input file",
     "Failed to create UHDR converter"}

\* C28: the output file is created or truncated only after the input has
\* been opened and UhdrConverter::new has succeeded; a run that fails for a
\* missing input source, an input that cannot be opened or a converter
\* construction error ends with the output path untouched.
C28_OutputAfterConverter ==
    /\ output_file = "created" => (reader # "none" /\ converter = "Ok")
    /\ (main_pc = "exited" /\ failure \in EarlyFailures) => output_file = "untouched"

C28_ConverterFailsOutputUntouched ==
    /\ main_pc = "exited"
    /\ failure = "Failed to create UHDR converter"
    /\ args.output_file_path # "None"
    /\ output_file = "untouched"

\* The size of the value slot of an entry: 4 bytes for version 42, 8 for 43.
SlotSize(version) == IF version = 42 THEN 4 ELSE 8

\* The entry read at start is accepted only with the reader left right
\* after its slot.
EndsAfterSlot(start, e, version) ==
    e.kind = "Ok" => e.pos = start + 8 + SlotSize(version)

\* The entries the IFD at pos announces, each read at its fixed-size record.
RecordsEndAfterSlot(bs, pos, endianness, version, ec) ==
    ec.ok =>
        \A k \in 0..(Min(Num(ec.val), MaxCount) - 1) :
            EndsAfterSlot(pos + 2 + k * (8 + SlotSize(version)),
                          TiffIfdEntryNew(bs, pos + 2 + k * (8 + SlotSize(version)),
                                          endianness, SlotSize(version)),
                          version)

\* C23: in TiffIfd::new every entry consumes a fixed-size record: after an
\* entry is processed the reader stands at the entry's start plus 8 plus the
\* slot size, whether the value was read inline (also when it is shorter than
\* the slot, or has count 0) or out of line.
C23_RecordsAreFixedSize ==
    (pc = "ifd" /\ header[1].version \in {42, 43}) =>
        RecordsEndAfterSlot(mpf_bytes[1], Num(ifd_offset[1]), header[1].endianness,
                            header[1].version,
                            ReadUint(mpf_bytes[1], Num(ifd_offset[1]),
                                     header[1].endianness, 2))

\* The offset the k-th IFD of the run was read at: the header's first-IFD
\* offset, then the next-IFD offset of the IFD before.
OffsetRead(k) ==
    IF k = 1 THEN header[1].first_ifd_offset ELSE ifds[k - 1].next_ifd_offset[1]

\* C24: Tiff::from_reader terminates on every finite byte stream, also when
\* the next-IFD offsets form a cycle.  TiffIfd::new is a function of the
\* stream and the offset, so the loop ends exactly when it never goes back to
\* an offset it has read an IFD at.
C24_NoIfdOffsetTwice ==
    pc = "ifd" => \A k \in 1..Len(ifds) : OffsetRead(k) # ifd_offset[1]

\* clamp(floor(x) - 1, 0, dim - 1) when the fractional part of x is below
\* 0.5, clamp(floor(x), 0, dim - 1) otherwise, for x = xn / Den.
PolicyBase(xn, dim) ==
    Min(dim - 1,
        IF 2 * (xn % Den) < Den
        THEN (IF xn \div Den - 1 < 0 THEN 0 ELSE xn \div Den - 1)
        ELSE (IF xn \div Den < 0 THEN 0 ELSE xn \div Den))

\* C25: in sample_bilinear the clamped base row is clamp(floor(y) - 1, 0,
\* height - 1) when the fractional part of y = v * height is below 0.5 and
\* clamp(floor(y), 0, height - 1) otherwise, the same function of y that the
\* clamped base column is of x.
C25_BaseRowLikeBaseColumn ==
    call.op = "sample_bilinear" =>
        /\ call.base[2] = PolicyBase(call.b, image.height)
        /\ call.base[1] = PolicyBase(call.a, image.width)

C25_RowOneAndAQuarter ==
    /\ call.op = "sample_bilinear"
    /\ image.height = 2
    /\ call.b = Den + 1
    /\ call.base[2] = 0

\* An li child that holds a number.
IsNumber(li) == li.text # <<>> /\ ParseF32(li.text[1]) # <<>>

\* The triple of the first three li children of a Seq, or the field's
\* default when one of them is missing or no number.
TripleOfFirstThree(lis, name) ==
    IF Len(lis) >= 3 /\ \A i \in 1..3 : IsNumber(lis[i])
    THEN [i \in 1..3 |-> ParseF32(lis[i].text[1])[1]]
    ELSE DefaultOf(name)

\* C26: a triple field given as a child element with a Seq takes its three
\* components from the first three li children of the Seq, in document
\* order; later li children are ignored, and a Seq in which one of the first
\* three li children is missing or not a number leaves the field at its
\* default rather than partly filled or shifted.
C26_FirstThreeLi ==
    parsed.kind = "Some" =>
        \A name \in TripleFields :
            \A i \in 1..Len(xmp.description[1].children) :
                (/\ xmp.description[1].children[i].name = name
                 /\ xmp.description[1].children[i].seq # <<>>
                 /\ FindAttr(xmp.description[1], name) = <<>>)
                    => FieldOf(parsed.metadata, name)
                           = TripleOfFirstThree(xmp.description[1].children[i].seq[1], name)

\* The coordinates of an image.
InExtent(c, x, y) == x < c.width /\ y < c.height

\* C27: FloatImageContent addresses one pixel per coordinate: set_at(x, y, p)
\* with x < w and y < h changes only the pixel get_at(x, y) reads and leaves
\* every other pixel unchanged; set_at and get_at with x >= w or y >= h
\* abort instead of reading or writing the pixel of another coordinate.
C27_OnePixelPerCoordinate ==
    float_call.op # "none" =>
        IF InExtent(float_call.before, float_call.x, float_call.y)
        THEN /\ float_call.kind = "Ok"
             /\ float_call.op = "set_at" =>
                    /\ GetAt(content, float_call.x, float_call.y).pixel
                           = <<FloatPixelWritten>>
                    /\ \A x \in 0..(content.width - 1), y \in 0..(content.height - 1) :
                           <<x, y>> # <<float_call.x, float_call.y>> =>
                               GetAt(content, x, y).pixel
                                   = GetAt(float_call.before, x, y).pixel
             /\ float_call.op = "get_at" => content = float_call.before
        ELSE float_call.kind = "Panic" /\ content = float_call.before

\* An f32 that is a number between 0 and 1.
InUnitInterval(f) == f.k = "fin" /\ ~FLess(f, Zero) /\ ~FLess(One, f)

\* C29: compute_weight_factor returns a value in [0, 1] for every
\* GainMapMetadata and every log2_max_display_boost, also when
\* hdr_capacity_min = hdr_capacity_max (zero divisor) and when
\* hdr_capacity_min > hdr_capacity_max.
C29_WeightFactorInUnitInterval ==
    weight # <<>> => InUnitInterval(weight[1].ret)

\* C30: for every linear input image, with any f32 channel values,
\* write_hdr10_linear_pixels_to_avif hands the encoder exactly width * height
\* triples in row-major order, and every Y', Cb and Cr value of every triple
\* is an integer in [0, 1023].
C30_TriplesInTenBits ==
    avif_call # <<>> =>
        /\ avif_call[1].kind = "Ok"
        /\ Len(avif_call[1].ycbcr_pixels) = content.width * content.height
        /\ \A x \in 0..(content.width - 1), y \in 0..(content.height - 1) :
               /\ avif_call[1].ycbcr_pixels[y * content.width + x + 1]
                      = YcbcrOfPixel(GetAt(content, x, y))
               /\ \A c \in 1..3 :
                      avif_call[1].ycbcr_pixels[y * content.width + x + 1][c] \in 0..1023

\* An image whose first pixel has a channel below 0 and one above 10000.
C30_ClampedChannels ==
    /\ avif_call # <<>>
    /\ content.width = 2 /\ content.height = 2
    /\ content.pixels[1] = <<Fin(0 - 1, 1), Fin(20000, 1), Fin(100, 1)>>
    /\ avif_call[1].ycbcr_pixels[1] = <<725, 407, 20>>

\* |x| <= 1e-5 for a finite x: the numerator of a 32-bit rational that small
\* is at most 21474.
WithinTolerance(x) ==
    /\ x.k = "fin"
    /\ Abs(x.n) <= 21474
    /\ Abs(x.n) * 100000 <= x.d

\* C22: converting a linear RGB value from a gamut to the same gamut returns
\* the value, within 1e-5 in every channel.
C22_SelfConversionIsIdentity ==
    converted # <<>> =>
        /\ converted[1].out.kind = "Ok"
        /\ \A c \in 1..3 :
               WithinTolerance(FSub(converted[1].out.rgb[c], converted[1].value[c]))

====
